---------------------------- MODULE Spec2Model ----------------------------
(***************************************************************************)
(* A model of window_layout.py: capture, scoring, greedy matching,         *)
(* placement, tab assignment, layout persistence and the restore           *)
(* orchestrator.                                                           *)
(*                                                                         *)
(* Text (titles, class names, process names, executable paths, the schema  *)
(* string) is modelled as a sequence of one-character strings so that      *)
(* lower(), strip(), split() and substring tests are computed, not         *)
(* assumed.  Rectangles are <<left, top, right, bottom>>.  An absent or    *)
(* empty Python value is the empty sequence <<>>.                          *)
(***************************************************************************)
EXTENDS Integers, Sequences, FiniteSets, TLC

VARIABLES
    scTarget, scCand, scOut, scPc,          \* _score: inputs, result, position
    asCaller, asWins, asTabs, asPc,         \* _assign_tabs: caller, windows, tabs
    desk,                                   \* the desktop: the OS's top-level windows
    fsFile,                                 \* the layout file at the path
    sv,                                     \* save_layout / edge_capture in progress
    rs,                                     \* restore_layout in progress
    ui                                      \* the GUI, the hotkey listeners and the processes they start

scoreVars == <<scTarget, scCand, scOut, scPc>>

assignVars == <<asCaller, asWins, asTabs, asPc>>

deskVars == <<desk, fsFile, sv, rs>>

vars == <<scoreVars, assignVars, deskVars, ui>>

(***************************************************************************)
(* Text helpers (Python str methods)                                       *)
(***************************************************************************)
Abs(x) == IF x < 0 THEN -x ELSE x

Max(a, b) == IF a >= b THEN a ELSE b

Min(a, b) == IF a <= b THEN a ELSE b

Blank == {" "}

LowerChar(c) ==
    CASE c = "A" -> "a" [] c = "B" -> "b" [] c = "C" -> "c" [] c = "D" -> "d"
      [] c = "E" -> "e" [] c = "F" -> "f" [] c = "G" -> "g" [] c = "H" -> "h"
      [] c = "I" -> "i" [] c = "J" -> "j" [] c = "K" -> "k" [] c = "L" -> "l"
      [] c = "M" -> "m" [] c = "N" -> "n" [] c = "O" -> "o" [] c = "P" -> "p"
      [] c = "Q" -> "q" [] c = "R" -> "r" [] c = "S" -> "s" [] c = "T" -> "t"
      [] c = "U" -> "u" [] c = "V" -> "v" [] c = "W" -> "w" [] c = "X" -> "x"
      [] c = "Y" -> "y" [] c = "Z" -> "z" [] OTHER -> c

\* str.lower()
Lower(s) == [i \in 1..Len(s) |-> LowerChar(s[i])]

RECURSIVE LStrip(_)
LStrip(s) == IF s # <<>> /\ Head(s) \in Blank THEN LStrip(Tail(s)) ELSE s

RECURSIVE RStrip(_)
RStrip(s) ==
    IF s # <<>> /\ s[Len(s)] \in Blank THEN RStrip(SubSeq(s, 1, Len(s) - 1)) ELSE s

\* str.strip()
Strip(s) == RStrip(LStrip(s))

RECURSIVE SplitAcc(_, _, _)
SplitAcc(s, cur, acc) ==
    IF s = <<>> THEN (IF cur = <<>> THEN acc ELSE Append(acc, cur))
    ELSE IF Head(s) \in Blank
         THEN SplitAcc(Tail(s), <<>>, IF cur = <<>> THEN acc ELSE Append(acc, cur))
         ELSE SplitAcc(Tail(s), Append(cur, Head(s)), acc)

\* str.split(): the words between runs of whitespace
Split(s) == SplitAcc(s, <<>>, <<>>)

\* set(s.split())
Toks(s) == LET w == Split(s) IN {w[i] : i \in 1..Len(w)}

\* pat in s
Contains(pat, s) ==
    \E i \in 0..(Len(s) - Len(pat)) : SubSeq(s, i + 1, i + Len(pat)) = pat

\* s.rfind(pat), 0-based; only used where pat in s
RFind(s, pat) ==
    CHOOSE i \in 0..(Len(s) - Len(pat)) :
        /\ SubSeq(s, i + 1, i + Len(pat)) = pat
        /\ \A j \in (i + 1)..(Len(s) - Len(pat)) : SubSeq(s, j + 1, j + Len(pat)) # pat

\* a or b, for sequences: an empty sequence is falsy
OrElse(a, b) == IF a # <<>> THEN a ELSE b

RECURSIVE JoinWords(_)
JoinWords(ws) ==
    IF Len(ws) = 0 THEN <<>>
    ELSE IF Len(ws) = 1 THEN ws[1]
    ELSE ws[1] \o <<" ">> \o JoinWords(Tail(ws))

MsEdgeExe == <<"m","s","e","d","g","e",".","e","x","e">>

(***************************************************************************)
(* Geometry helpers                                                        *)
(***************************************************************************)
_is_close_rect(a, b, thr) == \A i \in 1..4 : Abs(a[i] - b[i]) <= thr

_rects_intersect(a, b) ==
    ~(a[3] <= b[1] \/ a[1] >= b[3] \/ a[4] <= b[2] \/ a[2] >= b[4])

(***************************************************************************)
(* Scoring (_score)                                                        *)
(***************************************************************************)
ExePoints(candidate, target) ==
    LET t_exe == Lower(target.exe)
        c_exe == Lower(candidate.exe)
    IN  IF t_exe # <<>> /\ c_exe # <<>> /\ t_exe = c_exe THEN 50 ELSE 0

ProcessPoints(candidate, target) ==
    LET t_proc == Lower(target.process_name)
        c_proc == Lower(candidate.process_name)
    IN  IF t_proc # <<>> /\ c_proc # <<>> /\ t_proc = c_proc THEN 25 ELSE 0

ClassPoints(candidate, target) ==
    LET t_cls == Lower(target.class_name)
        c_cls == Lower(candidate.class_name)
    IN  IF t_cls # <<>> /\ c_cls # <<>> /\ t_cls = c_cls THEN 15 ELSE 0

\* len(a & b) / max(len(a | b), 1) >= num/den, in integers
OverlapAtLeast(a, b, num, den) ==
    den * Cardinality(a \cap b) >= num * Max(Cardinality(a \cup b), 1)

EdgeDeweighted(target) == Lower(target.process_name) = MsEdgeExe

\* A mutant: the browser title scored like any other title.
TitlePointsNoDeweight(candidate, target) ==
    LET t_title == Lower(target.title)
        c_title == Lower(candidate.title)
    IN  IF t_title # <<>> /\ c_title # <<>>
        THEN IF t_title = c_title THEN 40
             ELSE IF Contains(t_title, c_title) \/ Contains(c_title, t_title)
                  THEN 15 ELSE 0
        ELSE 0

TitlePoints(candidate, target) ==
    LET t_title == Lower(target.title)
        c_title == Lower(candidate.title)
    IN  IF EdgeDeweighted(target)
        THEN IF OverlapAtLeast(Toks(t_title), Toks(c_title), 4, 10) THEN 8 ELSE 0
        ELSE IF t_title # <<>> /\ c_title # <<>>
             THEN IF t_title = c_title THEN 40
                  ELSE IF Contains(t_title, c_title) \/ Contains(c_title, t_title)
                       THEN 15 ELSE 0
             ELSE 0

\* The rect _score compares: normal_rect or rect or ()
CompRect(w) == OrElse(w.normal_rect, w.rect)

\* A mutant: the two geometry bands exchanged.
GeometryPointsSwapped(candidate, target) ==
    LET t_rect == CompRect(target)
        c_rect == CompRect(candidate)
    IN  IF Len(t_rect) = 4 /\ Len(c_rect) = 4
        THEN IF _is_close_rect(c_rect, t_rect, 40) THEN 15
             ELSE IF _is_close_rect(c_rect, t_rect, 120) THEN 30 ELSE 0
        ELSE 0

GeometryPoints(candidate, target) ==
    LET t_rect == CompRect(target)
        c_rect == CompRect(candidate)
    IN  IF Len(t_rect) = 4 /\ Len(c_rect) = 4
        THEN IF _is_close_rect(c_rect, t_rect, 40) THEN 30
             ELSE IF _is_close_rect(c_rect, t_rect, 120) THEN 15 ELSE 0
        ELSE 0

_score(candidate, target) ==
    LET e == ExePoints(candidate, target)
        p == ProcessPoints(candidate, target)
        c == ClassPoints(candidate, target)
        t == TitlePoints(candidate, target)
        g == GeometryPoints(candidate, target)
    IN  [exe |-> e, process |-> p, class |-> c, title |-> t, geometry |-> g,
         edge_title_deweighted |-> IF EdgeDeweighted(target) THEN 1 ELSE 0,
         total |-> e + p + c + t + g]

(***************************************************************************)
(* Specification SpecScore: _score applied to bounded inputs               *)
(***************************************************************************)
MaxWords == 2

ScWords == {<<"a">>, <<"A">>, <<"b">>}

ScTitles == {JoinWords(ws) : ws \in UNION {[1..k -> ScWords] : k \in 1..MaxWords}}

ScBase == <<0, 0, 800, 600>>

ShiftAll(r, d) == <<r[1] + d, r[2] + d, r[3] + d, r[4] + d>>

ShiftRight(r, d) == <<r[1], r[2], r[3] + d, r[4]>>

ScRects ==
    {ShiftAll(ScBase, d) : d \in {0, 41}} \cup
    {ShiftRight(ScBase, d) : d \in {-40, 120, -121}}

\* (normal_rect, rect) pairs of a candidate: the live enumeration always
\* supplies normal_rect; a record without one falls back to rect.
ScGeoms ==
    {<<r, ScBase>> : r \in ScRects} \cup {<<(<<>>), r>> : r \in {ScBase, ShiftAll(ScBase, 41)}}

ScTargets ==
    {[title |-> t, class_name |-> <<"c">>, process_name |-> p, exe |-> <<"e">>,
      normal_rect |-> ScBase, rect |-> ScBase] :
        t \in ScTitles, p \in {MsEdgeExe, <<"p">>}}

ScCands ==
    {[hwnd |-> 1, title |-> t, class_name |-> c, process_name |-> p, exe |-> e,
      normal_rect |-> g[1], rect |-> g[2]] :
        t \in ScTitles, c \in {<<"C">>}, p \in {MsEdgeExe, <<"P">>},
        e \in {<<"E">>}, g \in ScGeoms}

IdleScore == scTarget = <<>> /\ scCand = <<>> /\ scOut = <<>> /\ scPc = "idle"

IdleAssign == asCaller = "none" /\ asWins = <<>> /\ asTabs = <<>> /\ asPc = "idle"

\* No file at the path.
NoFile == [exists |-> FALSE, doc |-> <<>>, written |-> 0]

IdleDesk == desk = <<>> /\ fsFile = NoFile /\ sv = [pc |-> "off"] /\ rs = [pc |-> "off"]

\* No GUI and no hotkey listener.
IdleUi == ui = [pc |-> "off"]

InitScore ==
    /\ scTarget \in ScTargets
    /\ scCand \in ScCands
    /\ scOut = <<>>
    /\ scPc = "input"
    /\ IdleAssign
    /\ IdleDesk
    /\ IdleUi

\* One call of _score(candidate, target).
ScoreCall ==
    /\ scPc = "input"
    /\ scOut' = _score(scCand, scTarget)
    /\ scPc' = "scored"
    /\ UNCHANGED <<scTarget, scCand, assignVars, deskVars, ui>>

NextScore == ScoreCall

SpecScore == InitScore /\ [][NextScore]_vars

\* The candidate of the state with another title / another geometry.
WithTitle(c, t) == [c EXCEPT !.title = t]

WithGeom(c, g) == [c EXCEPT !.normal_rect = g[1], !.rect = g[2]]

Scored == scPc = "scored"

(***************************************************************************)
(* C5 (as stated): for a browser target the title component is at most 8,  *)
(* so two candidates that differ only in title differ in total by at most  *)
(* 8, and titles sharing no word give title = 0; for a non-browser target  *)
(* a candidate with a different title scores strictly lower than the       *)
(* otherwise identical candidate with the exact title.                     *)
(***************************************************************************)
C5_BrowserBand ==
    (Scored /\ EdgeDeweighted(scTarget)) =>
        /\ scOut.title \in {0, 8}
        /\ \A t \in ScTitles :
               Abs(_score(WithTitle(scCand, t), scTarget).total - scOut.total) <= 8
        /\ (Toks(Lower(scCand.title)) \cap Toks(Lower(scTarget.title)) = {})
               => scOut.title = 0

C5_Original ==
    /\ C5_BrowserBand
    /\ (Scored /\ ~EdgeDeweighted(scTarget) /\ scCand.title = scTarget.title) =>
           \A t \in ScTitles :
               t # scTarget.title =>
                   _score(WithTitle(scCand, t), scTarget).total < scOut.total

(***************************************************************************)
(* C5 (amended): the same, where "a different title" for a non-browser     *)
(* target means different after case folding: titles are compared          *)
(* lower-cased, so a title differing only in letter case is an exact       *)
(* match and scores the same.                                              *)
(***************************************************************************)
C5_TitleDeweighting ==
    /\ C5_BrowserBand
    /\ (Scored /\ ~EdgeDeweighted(scTarget) /\ scCand.title = scTarget.title) =>
           \A t \in ScTitles :
               Lower(t) # Lower(scTarget.title) =>
                   _score(WithTitle(scCand, t), scTarget).total < scOut.total

\* A browser candidate whose title shares no word with the target's has been
\* scored, and so has a non-browser candidate with the exact title.
C5_Witness ==
    /\ Scored
    /\ EdgeDeweighted(scTarget)
    /\ scOut.title = 0
    /\ scOut.total = 50 + 25 + 15 + 30
    /\ Toks(Lower(scCand.title)) \cap Toks(Lower(scTarget.title)) = {}

(***************************************************************************)
(* C6: for a fixed target and candidates equal in every other field, a     *)
(* candidate whose compared rect is within 40px of the target's on all     *)
(* four edges scores >= one within 120px on all four edges, which scores   *)
(* >= one farther than 120px on some edge.                                 *)
(***************************************************************************)
Within(c, thr) == _is_close_rect(CompRect(c), CompRect(scTarget), thr)

C6_GeometryMonotone ==
    Scored =>
        \A g \in ScGeoms :
            LET other == WithGeom(scCand, g)
                o == _score(other, scTarget).total
            IN  /\ (Within(scCand, 40) /\ Within(other, 120)) => scOut.total >= o
                /\ (Within(scCand, 120) /\ ~Within(other, 120)) => scOut.total >= o
                /\ (Within(scCand, 40) /\ ~Within(other, 120)) => scOut.total >= o

\* A candidate in the 120px band (not the 40px band) has been scored.
C6_Witness ==
    /\ Scored
    /\ Within(scCand, 120) /\ ~Within(scCand, 40)
    /\ scOut.geometry = 15

(***************************************************************************)
(* Capture-time tab assignment (_strip_edge_suffix, _assign_tabs)          *)
(***************************************************************************)
\* s.replace(pat, rep)
RECURSIVE ReplaceAll(_, _, _)
ReplaceAll(s, pat, rep) ==
    IF Len(s) < Len(pat) \/ pat = <<>> THEN s
    ELSE IF SubSeq(s, 1, Len(pat)) = pat
         THEN rep \o ReplaceAll(SubSeq(s, Len(pat) + 1, Len(s)), pat, rep)
         ELSE <<Head(s)>> \o ReplaceAll(Tail(s), pat, rep)

MicrosoftZwEdge == <<"M","i","c","r","o","s","o","f","t","u200b"," ","E","d","g","e">>

MicrosoftEdge == <<"M","i","c","r","o","s","o","f","t"," ","E","d","g","e">>

SfxWork == <<" ","-"," ","w","o","r","k"," ","-"," ","m","i","c","r","o","s","o","f","t"," ","e","d","g","e">>

SfxPersonal == <<" ","-"," ","p","e","r","s","o","n","a","l"," ","-"," ","m","i","c","r","o","s","o","f","t"," ","e","d","g","e">>

SfxEdge == <<" ","-"," ","m","i","c","r","o","s","o","f","t"," ","e","d","g","e">>

\* One round of the suffix loop: cut s at the last occurrence of m in low.
CutSuffix(s, low, m) ==
    IF Contains(m, low) THEN SubSeq(s, 1, RFind(low, m)) ELSE s

\* The suffix loop over the markers ms, in order.
RECURSIVE CutSuffixes(_, _)
CutSuffixes(s, ms) ==
    IF ms = <<>> THEN s
    ELSE CutSuffixes(CutSuffix(s, Lower(s), Head(ms)), Tail(ms))

_strip_edge_suffix(title) ==
    Lower(Strip(CutSuffixes(Strip(ReplaceAll(title, MicrosoftZwEdge, MicrosoftEdge)),
                            <<SfxWork, SfxPersonal, SfxEdge>>)))

\* isinstance(wid, int) and wid > 0   (None is modelled as 0)
ValidWid(wid) == wid > 0

\* by_wid keys in sorted order
RECURSIVE SortedSeq(_)
SortedSeq(S) ==
    IF S = {} THEN <<>>
    ELSE LET m == CHOOSE x \in S : \A y \in S : x <= y
         IN  <<m>> \o SortedSeq(S \ {m})

GroupOf(tabs, wid) ==
    LET F[i \in 0..Len(tabs)] ==
            IF i = 0 THEN <<>>
            ELSE IF tabs[i].window_id = wid THEN Append(F[i - 1], tabs[i]) ELSE F[i - 1]
    IN  F[Len(tabs)]

NoWid(tabs) ==
    LET F[i \in 0..Len(tabs)] ==
            IF i = 0 THEN <<>>
            ELSE IF ~ValidWid(tabs[i].window_id) THEN Append(F[i - 1], tabs[i]) ELSE F[i - 1]
    IN  F[Len(tabs)]

\* hint_map: a later window with the same hint replaces an earlier one
HintMap(wins) ==
    [h \in {wins[i].cdp_window_id : i \in {j \in 1..Len(wins) : wins[j].cdp_window_id > 0}}
            |-> CHOOSE i \in 1..Len(wins) :
                    /\ wins[i].cdp_window_id = h
                    /\ \A j \in (i + 1)..Len(wins) : wins[j].cdp_window_id # h]

\* The word sets of the normalised titles, one per title of the sequence.
NormToks(titles) == [i \in 1..Len(titles) |-> Toks(_strip_edge_suffix(titles[i]))]

\* Overlap of two word sets as <<|intersection|, |union|>>, or <<0, 1>> when
\* either is empty.
TitleOverlap(tt, wt) ==
    IF tt = {} \/ wt = {} THEN <<0, 1>>
    ELSE <<Cardinality(tt \cap wt), Max(Cardinality(tt \cup wt), 1)>>

\* The strictly best overlap among the unassigned windows (the first one on a
\* tie), accepted from 0.3; 0 is None.  ov[i] is window i's overlap.
BestOverlap(ov, assigned) ==
    LET free == {i \in DOMAIN ov : i \notin assigned /\ ov[i][1] > 0}
        best == {i \in free : \A j \in free : ~(ov[j][1] * ov[i][2] > ov[i][1] * ov[j][2])}
    IN  IF best = {} THEN 0
        ELSE IF \E i \in best : 10 * ov[i][1] >= 3 * ov[i][2]
             THEN CHOOSE i \in best : \A j \in best : i <= j
             ELSE 0

\* tk holds the windows' word sets followed by the tab's.
OverlapsOf(tk) == [i \in 1..(Len(tk) - 1) |-> TitleOverlap(tk[Len(tk)], tk[i])]

_best_title_match(wins, assigned, tab_title) ==
    BestOverlap(OverlapsOf(NormToks(Append([i \in 1..Len(wins) |-> wins[i].title], tab_title))),
                assigned)

\* The first non-zero entry of a sequence of window indexes, else 0.
FirstNonZero(ms) ==
    IF \A k \in DOMAIN ms : ms[k] = 0 THEN 0
    ELSE ms[CHOOSE k \in DOMAIN ms : ms[k] # 0 /\ \A j \in 1..(k - 1) : ms[j] = 0]

FirstTitleMatch(wins, assigned, group) ==
    FirstNonZero([k \in 1..Len(group) |-> _best_title_match(wins, assigned, group[k].title)])

FirstUnassigned(wins, assigned) ==
    LET free == {i \in 1..Len(wins) : i \notin assigned}
    IN  IF free = {} THEN 0 ELSE CHOOSE i \in free : \A j \in free : i <= j

\* The three steps of _pick on their results: hint, title overlap, first
\* unassigned; 0 is None.
PickFrom(hm, assigned, cdp_wid, byTitle, firstFree) ==
    IF cdp_wid \in DOMAIN hm /\ hm[cdp_wid] \notin assigned THEN hm[cdp_wid]
    ELSE IF byTitle # 0 THEN byTitle ELSE firstFree

_pick(wins, assigned, group, cdp_wid) ==
    PickFrom(HintMap(wins), assigned, cdp_wid,
             FirstTitleMatch(wins, assigned, group), FirstUnassigned(wins, assigned))

PlainTab(t) == [title |-> t.title, url |-> t.url]

PlainTabs(group) == [i \in 1..Len(group) |-> PlainTab(group[i])]

\* A round that forgets that window w is now taken.
GroupTakeUnclaimed(st, cdp_wid, group, w) ==
    IF w = 0 THEN st
    ELSE [wins |-> [st.wins EXCEPT ![w].cdp_window_id =
                                      IF st.wins[w].has_edge THEN cdp_wid ELSE @,
                                   ![w].edge_tabs = @ \o PlainTabs(group)],
          assigned |-> st.assigned]

\* One round of the loop over the groups: window w (0 is None) takes group.
GroupTake(st, cdp_wid, group, w) ==
    IF w = 0 THEN st
    ELSE [wins |-> [st.wins EXCEPT ![w].cdp_window_id =
                                      IF st.wins[w].has_edge THEN cdp_wid ELSE @,
                                   ![w].edge_tabs = @ \o PlainTabs(group)],
          assigned |-> st.assigned \cup {w}]

GroupStep(st, cdp_wid, group) ==
    GroupTake(st, cdp_wid, group, _pick(st.wins, st.assigned, group, cdp_wid))

\* The loop over the groups with a valid windowId, in sorted key order.
RECURSIVE AssignGroups(_, _, _)
AssignGroups(st, wids, tabs) ==
    IF wids = <<>> THEN st
    ELSE AssignGroups(GroupStep(st, Head(wids), GroupOf(tabs, Head(wids))), Tail(wids), tabs)

\* One round of the loop over the tabs without a valid windowId: m is the
\* title match (0 is None), rr the round-robin counter.
LooseTake(st, tab, m) ==
    IF m # 0
    THEN [st EXCEPT !.wins[m].edge_tabs = Append(@, PlainTab(tab))]
    ELSE [st EXCEPT !.wins[(st.rr % Len(st.wins)) + 1].edge_tabs = Append(@, PlainTab(tab)),
                    !.rr = @ + 1]

RECURSIVE AssignLoose(_, _)
AssignLoose(st, loose) ==
    IF loose = <<>> THEN st
    ELSE AssignLoose(LooseTake(st, Head(loose),
                               _best_title_match(st.wins, st.assigned, Head(loose).title)),
                     Tail(loose))

WithRR(st) == [wins |-> st.wins, assigned |-> st.assigned, rr |-> 0]

_assign_tabs(edge_windows, tabs) ==
    IF edge_windows = <<>> \/ tabs = <<>> THEN edge_windows
    ELSE AssignLoose(
           WithRR(AssignGroups(
              [wins |-> [i \in 1..Len(edge_windows) |->
                            [edge_windows[i] EXCEPT !.edge_tabs = <<>>]],
               assigned |-> {}],
              SortedSeq({tabs[i].window_id :
                            i \in {j \in 1..Len(tabs) : ValidWid(tabs[j].window_id)}}),
              tabs)),
           NoWid(tabs)).wins

(***************************************************************************)
(* Specification SpecAssign: _assign_tabs as save_layout and edge_capture  *)
(* call it                                                                 *)
(***************************************************************************)
MaxEdgeWins == 2

MaxTabs == 3

MaxWid == 2

AsWinTitles == {<<"a">> \o <<" ","-"," ">> \o MicrosoftEdge,
                <<"b">> \o <<" ","-"," ","W","o","r","k"," ","-"," ">> \o MicrosoftZwEdge}

AsTabTitles == {<<"A">>, <<"c">>}

Urls == <<"u1", "u2", "u3", "u4", "u5">>

OldTab == [title |-> <<"o">>, url |-> "old"]

AsWindows(old) ==
    {[title |-> t, process_name |-> MsEdgeExe, has_edge |-> TRUE,
      cdp_window_id |-> h, debug_port |-> 0, edge_tabs |-> old] :
        t \in AsWinTitles, h \in 0..MaxWid}

AsTabSeqs(lo) ==
    UNION {{[i \in 1..n |-> [title |-> tt[i], url |-> Urls[i], window_id |-> ww[i]]] :
               tt \in [1..n -> AsTabTitles], ww \in [1..n -> 0..MaxWid]} : n \in lo..MaxTabs}

\* save_layout calls it on freshly captured windows (edge_tabs = []) with
\* whatever the endpoint returned; edge_capture calls it on the windows of an
\* existing file, and only with a non-empty tab list.
InitAssign ==
    /\ asCaller \in {"save_layout", "edge_capture"}
    /\ \E n \in 1..MaxEdgeWins :
          asWins \in [1..n -> AsWindows(IF asCaller = "save_layout" THEN <<>> ELSE <<OldTab>>)]
    /\ asTabs \in AsTabSeqs(IF asCaller = "save_layout" THEN 0 ELSE 1)
    /\ asPc = "input"
    /\ IdleScore
    /\ IdleDesk
    /\ IdleUi

AssignCall ==
    /\ asPc = "input"
    /\ asWins' = _assign_tabs(asWins, asTabs)
    /\ asPc' = "assigned"
    /\ UNCHANGED <<asCaller, asTabs, scoreVars, deskVars, ui>>

NextAssign == AssignCall

SpecAssign == InitAssign /\ [][NextAssign]_vars

RECURSIVE SumLen(_)
SumLen(wins) == IF wins = <<>> THEN 0 ELSE Len(Head(wins).edge_tabs) + SumLen(Tail(wins))

(***************************************************************************)
(* C2: after _assign_tabs(edge_windows, tabs) with at least one saved      *)
(* browser window, the sum of len(edge_tabs) over the saved windows        *)
(* equals len(tabs).                                                       *)
(***************************************************************************)
C2_TabConservation ==
    (asPc = "assigned" /\ Len(asWins) >= 1) => SumLen(asWins) = Len(asTabs)

(***************************************************************************)
(* The desktop: top-level windows as the OS reports them                   *)
(*                                                                         *)
(* A window is a record; the desktop is the sequence of windows in         *)
(* EnumWindows order (front to back).  placeable = FALSE is a window on    *)
(* which every placement call fails (destroyed handle, access denied).     *)
(***************************************************************************)
SW_SHOWNORMAL == 1

SW_SHOWMINIMIZED == 2

SW_SHOWMAXIMIZED == 3

SW_SHOWNOACTIVATE == 4

SW_RESTORE == 9

Z_SENTINEL == 9999

BLOCKED_PROC ==
    { <<"t","e","x","t","i","n","p","u","t","h","o","s","t",".","e","x","e">>,
      <<"a","p","p","l","i","c","a","t","i","o","n","f","r","a","m","e","h","o","s","t",".","e","x","e">>,
      <<"s","h","e","l","l","h","o","s","t",".","e","x","e">>,
      <<"s","t","a","r","t","m","e","n","u","e","x","p","e","r","i","e","n","c","e","h","o","s","t",".","e","x","e">>,
      <<"s","e","a","r","c","h","h","o","s","t",".","e","x","e">>,
      <<"s","e","a","r","c","h","a","p","p",".","e","x","e">>,
      <<"l","o","c","k","a","p","p",".","e","x","e">>,
      <<"s","y","s","t","e","m","s","e","t","t","i","n","g","s",".","e","x","e">>,
      <<"d","w","m",".","e","x","e">>,
      <<"f","o","n","t","d","r","v","h","o","s","t",".","e","x","e">>,
      <<"r","t","k","u","w","p",".","e","x","e">> }

BLOCKED_CLASS ==
    { <<"w","i","n","d","o","w","s",".","u","i",".","c","o","r","e",".","c","o","r","e","w","i","n","d","o","w">>,
      <<"a","p","p","l","i","c","a","t","i","o","n","f","r","a","m","e","w","i","n","d","o","w">>,
      <<"p","r","o","g","m","a","n">>,
      <<"w","o","r","k","e","r","w">> }

\* The monitors' bounds, primary first (EnumDisplayMonitors / GetMonitorInfo).
Monitors == << <<0, 0, 1920, 1080>> >>

IconicRect == <<-32000, -32000, -31840, -31972>>

\* The live rect the OS shows for a show state and a remembered normal rect.
LiveRect(show_cmd, normal_rect) ==
    IF show_cmd = SW_SHOWMINIMIZED THEN IconicRect
    ELSE IF show_cmd = SW_SHOWMAXIMIZED THEN Monitors[1]
    ELSE normal_rect

_is_snapped(show_cmd, live_rect, normal_rect) ==
    IF show_cmd # SW_SHOWNORMAL THEN FALSE
    ELSE IF Len(live_rect) < 4 \/ Len(normal_rect) < 4 THEN FALSE
    ELSE ~(\A i \in 1..4 : Abs(live_rect[i] - normal_rect[i]) <= 10)

\* A filter with the size floor for minimised windows too.
InterestingBySize(w) ==
    IF w.has_parent THEN FALSE
    ELSE IF ~w.visible THEN FALSE
    ELSE IF Strip(w.title) = <<>> THEN FALSE
    ELSE IF Lower(Strip(w.class_name)) \in BLOCKED_CLASS THEN FALSE
    ELSE IF w.tool /\ ~w.appwin THEN FALSE
    ELSE IF w.owned /\ ~w.appwin THEN FALSE
    ELSE IF Lower(w.process_name) \in BLOCKED_PROC THEN FALSE
    ELSE IF (w.rect[3] - w.rect[1]) < 120 \/ (w.rect[4] - w.rect[2]) < 80 THEN FALSE
    ELSE TRUE

_is_interesting(w) ==
    IF w.has_parent THEN FALSE
    ELSE IF ~w.visible THEN FALSE
    ELSE IF Strip(w.title) = <<>> THEN FALSE
    ELSE IF Lower(Strip(w.class_name)) \in BLOCKED_CLASS THEN FALSE
    ELSE IF w.tool /\ ~w.appwin THEN FALSE
    ELSE IF w.owned /\ ~w.appwin THEN FALSE
    ELSE IF Lower(w.process_name) \in BLOCKED_PROC THEN FALSE
    ELSE IF w.show_cmd # SW_SHOWMINIMIZED
            /\ ((w.rect[3] - w.rect[1]) < 120 \/ (w.rect[4] - w.rect[2]) < 80) THEN FALSE
    ELSE TRUE

\* {hwnd: z_index} of _capture_z_order: the position in the enumeration
ZIndexOf(dk, hwnd) ==
    LET at == {i \in 1..Len(dk) : dk[i].hwnd = hwnd}
    IN  IF at = {} THEN Z_SENTINEL ELSE (CHOOSE i \in at : TRUE) - 1

\* The entry capture_windows builds for one admitted window.
CaptureEntry(dk, w, uuid) ==
    LET snapped == _is_snapped(w.show_cmd, w.rect, w.normal_rect)
        isEdge == Lower(w.process_name) = MsEdgeExe
    IN  [window_id |-> uuid,
         title |-> Strip(w.title),
         class_name |-> Strip(w.class_name),
         process_name |-> w.process_name,
         exe |-> w.exe,
         is_minimized |-> w.show_cmd = SW_SHOWMINIMIZED,
         is_maximized |-> w.show_cmd = SW_SHOWMAXIMIZED,
         is_snapped |-> snapped,
         rect |-> w.rect,
         normal_rect |-> w.normal_rect,
         restore_rect |-> IF snapped THEN w.rect ELSE w.normal_rect,
         show_cmd |-> w.show_cmd,
         z_order |-> ZIndexOf(dk, w.hwnd),
         launch_exe |-> w.exe,
         has_edge |-> isEdge,
         user_data_dir |-> IF isEdge THEN w.user_data_dir ELSE <<>>,
         profile_directory |-> IF isEdge THEN w.profile_directory ELSE <<>>,
         cdp_window_id |-> 0,
         debug_port |-> 0,
         edge_tabs |-> <<>>,
         destructive |-> FALSE]

\* capture_windows: the admitted windows in enumeration order, which is the
\* order of their z_order, so the final sort keeps it.
capture_windows(dk) ==
    LET F[i \in 0..Len(dk)] ==
            IF i = 0 THEN <<>>
            ELSE IF _is_interesting(dk[i])
                 THEN Append(F[i - 1], CaptureEntry(dk, dk[i], <<"id", dk[i].hwnd>>))
                 ELSE F[i - 1]
    IN  F[Len(dk)]

\* One record of _live_windows.
LiveEntry(dk, w) ==
    [hwnd |-> w.hwnd, title |-> Strip(w.title), class_name |-> Strip(w.class_name),
     process_name |-> w.process_name, exe |-> w.exe, show_cmd |-> w.show_cmd,
     normal_rect |-> w.normal_rect, rect |-> w.rect, z_order |-> ZIndexOf(dk, w.hwnd)]

_live_windows(dk) ==
    LET Keep(w) == /\ ~w.has_parent
                   /\ w.visible
                   /\ Strip(w.title) # <<>>
                   /\ Lower(Strip(w.class_name)) \notin BLOCKED_CLASS
                   /\ Lower(w.process_name) \notin BLOCKED_PROC
        F[i \in 0..Len(dk)] ==
            IF i = 0 THEN <<>>
            ELSE IF Keep(dk[i]) THEN Append(F[i - 1], LiveEntry(dk, dk[i]))
                 ELSE F[i - 1]
    IN  F[Len(dk)]

(***************************************************************************)
(* Placement (_clamp, _apply_placement)                                    *)
(***************************************************************************)
\* A clamp that looks at the first monitor only
ClampToFirst(left, top, w, h, bounds) ==
    IF bounds # <<>> /\ ~_rects_intersect(<<left, top, left + w, top + h>>, bounds[1])
    THEN <<Min(Max(left, bounds[1][1]), bounds[1][3] - w),
           Min(Max(top, bounds[1][2]), bounds[1][4] - h), w, h>>
    ELSE <<left, top, w, h>>

\* _clamp on the monitor bounds it enumerated (none when the query fails).
_clamp(left, top, w, h, bounds) ==
    IF bounds # <<>>
       /\ ~\E i \in DOMAIN bounds : _rects_intersect(<<left, top, left + w, top + h>>, bounds[i])
    THEN <<Min(Max(left, bounds[1][1]), bounds[1][3] - w),
           Min(Max(top, bounds[1][2]), bounds[1][4] - h), w, h>>
    ELSE <<left, top, w, h>>

\* <<left, top, right, bottom>> from the clamped <<left, top, w, h>>
ClampedRect(c) == <<c[1], c[2], c[1] + c[3], c[2] + c[4]>>

\* The rect _apply_placement asks the OS for: rr with the minimum size
\* enforced, clamped onto a monitor; <<>> when rr has fewer than 4 numbers.
PlacementRectOf(rr) ==
    IF Len(rr) < 4 THEN <<>>
    ELSE ClampedRect(_clamp(rr[1], rr[2], Max(80, rr[3] - rr[1]), Max(60, rr[4] - rr[2]),
                            Monitors))

PlacementRect(entry) ==
    PlacementRectOf(OrElse(entry.restore_rect, OrElse(entry.rect, entry.normal_rect)))

\* int(entry.get("show_cmd") or SW_SHOWNORMAL)
DesiredShow(entry) == IF entry.show_cmd = 0 THEN SW_SHOWNORMAL ELSE entry.show_cmd

\* The window after the primary path: MoveWindow for a snapped entry, which
\* leaves the remembered normal position alone, SetWindowPlacement otherwise.
PrimaryPlaced(w, is_snapped, desired, r) ==
    IF is_snapped
    THEN [w EXCEPT !.show_cmd = SW_SHOWNORMAL, !.rect = r]
    ELSE [w EXCEPT !.show_cmd = desired, !.normal_rect = r, !.rect = LiveRect(desired, r)]

\* The window after the fallback path: SW_RESTORE, MoveWindow, ShowWindow.
FallbackPlaced(w, desired, r) ==
    [w EXCEPT !.show_cmd = desired, !.normal_rect = r, !.rect = LiveRect(desired, r)]

\* A call on the window's handle as _apply_placement issues it: the show
\* command it passes (0 when the call has none), the rect it passes (<<>>
\* when it has none) and whether the call returned.
OsCall(api, show, rect, ok) == [api |-> api, show |-> show, rect |-> rect, ok |-> ok]

\* A try block that sets the placement of a snapped window as of any other
PrimaryOpsSetPlacement(is_snapped, desired, r, raises) ==
    IF raises THEN <<OsCall("GetWindowPlacement", 0, <<>>, FALSE)>>
    ELSE <<OsCall("GetWindowPlacement", 0, <<>>, TRUE),
           OsCall("SetWindowPlacement", desired, r, TRUE)>>

\* The calls of the try block; its first call raises when raises.
PrimaryOps(is_snapped, desired, r, raises) ==
    IF is_snapped
    THEN IF raises THEN <<OsCall("ShowWindow", SW_SHOWNOACTIVATE, <<>>, FALSE)>>
         ELSE <<OsCall("ShowWindow", SW_SHOWNOACTIVATE, <<>>, TRUE),
                OsCall("MoveWindow", 0, r, TRUE)>>
    ELSE IF raises THEN <<OsCall("GetWindowPlacement", 0, <<>>, FALSE)>>
         ELSE <<OsCall("GetWindowPlacement", 0, <<>>, TRUE),
                OsCall("SetWindowPlacement", desired, r, TRUE)>>

\* The calls of the except block; its first call raises when raises.
FallbackOps(desired, r, raises) ==
    IF raises THEN <<OsCall("ShowWindow", SW_RESTORE, <<>>, FALSE)>>
    ELSE <<OsCall("ShowWindow", SW_RESTORE, <<>>, TRUE), OsCall("MoveWindow", 0, r, TRUE),
           OsCall("ShowWindow", desired, <<>>, TRUE)>>

\* _apply_placement with the fallback's failure reported as success
ApplyPlacementSwallowed(w, entry, r) ==
    IF r = <<>> THEN [ok |-> FALSE, win |-> w, path |-> "none"]
    ELSE IF w.mode = "ok"
         THEN [ok |-> TRUE, win |-> PrimaryPlaced(w, entry.is_snapped, DesiredShow(entry), r),
               path |-> "primary"]
    ELSE IF w.mode = "flaky"
         THEN [ok |-> TRUE, win |-> FallbackPlaced(w, DesiredShow(entry), r),
               path |-> "fallback"]
    ELSE [ok |-> TRUE, win |-> w, path |-> "fallback"]

\* _apply_placement on window w (mode "ok": the calls succeed; "flaky": the
\* primary call raises and the fallback succeeds; "denied": every call
\* raises).  r is the requested rect.
ApplyPlacementAt(w, entry, r) ==
    IF r = <<>> THEN [ok |-> FALSE, win |-> w, path |-> "none", ops |-> <<>>]
    ELSE IF w.mode = "ok"
         THEN [ok |-> TRUE, win |-> PrimaryPlaced(w, entry.is_snapped, DesiredShow(entry), r),
               path |-> "primary",
               ops |-> PrimaryOps(entry.is_snapped, DesiredShow(entry), r, FALSE)]
    ELSE IF w.mode = "flaky"
         THEN [ok |-> TRUE, win |-> FallbackPlaced(w, DesiredShow(entry), r),
               path |-> "fallback",
               ops |-> PrimaryOps(entry.is_snapped, DesiredShow(entry), r, TRUE)
                         \o FallbackOps(DesiredShow(entry), r, FALSE)]
    ELSE [ok |-> FALSE, win |-> w, path |-> "failed",
          ops |-> PrimaryOps(entry.is_snapped, DesiredShow(entry), r, TRUE)
                    \o FallbackOps(DesiredShow(entry), r, TRUE)]

_apply_placement(w, entry) == ApplyPlacementAt(w, entry, PlacementRect(entry))

\* A destroyed handle: every call on it raises.
GoneWindow(hwnd) ==
    [hwnd |-> hwnd, has_parent |-> FALSE, visible |-> FALSE, title |-> <<>>,
     class_name |-> <<>>, process_name |-> <<>>, exe |-> <<>>, tool |-> FALSE,
     appwin |-> FALSE, owned |-> FALSE, show_cmd |-> SW_SHOWNORMAL,
     rect |-> <<0, 0, 0, 0>>, normal_rect |-> <<0, 0, 0, 0>>,
     user_data_dir |-> <<>>, profile_directory |-> <<>>, mode |-> "denied"]

\* Position of the window with this handle on the desktop, 0 when gone.
DeskIndex(dk, hwnd) ==
    IF \E i \in DOMAIN dk : dk[i].hwnd = hwnd
    THEN CHOOSE i \in DOMAIN dk : dk[i].hwnd = hwnd
    ELSE 0

WindowAt(dk, i, hwnd) == IF i = 0 THEN GoneWindow(hwnd) ELSE dk[i]

\* The desktop with window i replaced (unchanged when the handle is gone).
DeskWith(dk, i, w) == IF i = 0 THEN dk ELSE [dk EXCEPT ![i] = w]

(***************************************************************************)
(* Ranking (_rank_candidates)                                              *)
(***************************************************************************)
min_score == 40

\* The pre-filter: same exe when both are known, else same process name
\* when both are known, else no filter.
PassesFilter(t_exe, t_proc, c_exe, c_proc) ==
    IF t_exe # <<>> /\ c_exe # <<>> THEN t_exe = c_exe
    ELSE IF t_proc # <<>> /\ c_proc # <<>> THEN t_proc = c_proc
    ELSE TRUE

\* Eligible without the used-set test
EligibleAnyHandle(c, target, used) ==
    PassesFilter(Lower(target.exe), Lower(target.process_name),
                 Lower(c.exe), Lower(c.process_name))

Eligible(c, target, used) ==
    /\ c.hwnd \notin used
    /\ PassesFilter(Lower(target.exe), Lower(target.process_name),
                    Lower(c.exe), Lower(c.process_name))

RankEntry(c, comps) == [candidate |-> c, score |-> comps.total, components |-> comps]

\* ranked.sort(key=score, reverse=True) is stable: x goes after every entry
\* whose score is at least its own.
RECURSIVE InsertRanked(_, _)
InsertRanked(sorted, x) ==
    IF sorted = <<>> THEN <<x>>
    ELSE IF Head(sorted).score >= x.score
         THEN <<Head(sorted)>> \o InsertRanked(Tail(sorted), x)
         ELSE <<x>> \o sorted

_rank_candidates(target, current, used) ==
    LET F[i \in 0..Len(current)] ==
            IF i = 0 THEN <<>>
            ELSE IF Eligible(current[i], target, used)
                 THEN InsertRanked(F[i - 1], RankEntry(current[i], _score(current[i], target)))
                 ELSE F[i - 1]
    IN  F[Len(current)]

(***************************************************************************)
(* The layout file                                                         *)
(*                                                                         *)
(* A file holds the first `written` pieces of the JSON text of a document; *)
(* the text is complete when all DocSize pieces are there.                 *)
(***************************************************************************)
SCHEMA == <<"w","i","n","d","o","w","-","l","a","y","o","u","t">>

\* The preserved keys with created_at among them
PreservedWithCreated == {"speed_menu", "custom_layout_folders", "layouts_root", "created_at"}

PreservedKeys == {"speed_menu", "custom_layout_folders", "layouts_root"}

\* A document is the top-level object of the file: schema, created_at and
\* windows, and in extra the further top-level keys as pairs <<key, value>>.
\* Pieces of the JSON text: the opening brace with the schema, created_at,
\* one per window, one per further top-level key, the closing brace.
DocSize(doc) == 3 + Len(doc.windows) + Cardinality(doc.extra)

CompleteFile(doc) == [exists |-> TRUE, doc |-> doc, written |-> DocSize(doc)]

\* open(path) + json.load: the document, or the exception raised.
JsonLoad(file) ==
    IF ~file.exists THEN [error |-> "FileNotFoundError", doc |-> <<>>]
    ELSE IF file.written # DocSize(file.doc) THEN [error |-> "JSONDecodeError", doc |-> <<>>]
    ELSE [error |-> "none", doc |-> file.doc]

(***************************************************************************)
(* restore_layout                                                          *)
(***************************************************************************)
\* The locals of restore_layout, with the record of what it has done so far:
\* enums counts the enumerations of live windows, claims lists the handles
\* taken for targets (in order), calls the calls made on windows and
\* processes, env the environment the tab replay ran in, polls the polls of
\* _stabilize_edge.
RsLocals(opts) ==
    [pc |-> "idle", opts |-> opts, error |-> "none", targets |-> <<>>, current |-> <<>>,
     used |-> {}, applied |-> 0, skipped |-> 0, closed |-> 0, launched |-> 0,
     missing |-> <<>>, force_launch |-> <<>>, still_miss |-> <<>>, edge_applied |-> <<>>, placed_z |-> <<>>,
     edge_fixes |-> 0, z_fixed |-> 0, edge_tabs_opened |-> 0,
     enums |-> 0, claims |-> <<>>, calls |-> <<>>, env |-> <<>>, polls |-> <<>>,
     handled |-> <<>>]

\* The saved windows that are neither of a blocked process nor of a blocked
\* class.
ValidTargets(windows) ==
    LET F[i \in 0..Len(windows)] ==
            IF i = 0 THEN <<>>
            ELSE IF Lower(windows[i].process_name) \notin BLOCKED_PROC
                    /\ Lower(windows[i].class_name) \notin BLOCKED_CLASS
                 THEN Append(F[i - 1], windows[i])
                 ELSE F[i - 1]
    IN  F[Len(windows)]

\* RestoreLoaded without the schema test
RestoreLoadedAnySchema(r, loaded, dk) ==
    IF loaded.error # "none" THEN [r EXCEPT !.pc = "raised", !.error = loaded.error]
    ELSE [r EXCEPT !.pc = "match",
                   !.targets = ValidTargets(loaded.doc.windows),
                   !.current = _live_windows(dk),
                   !.enums = @ + 1]

\* restore_layout up to the start of the matching loop, on what json.load
\* returned.
RestoreLoaded(r, loaded, dk) ==
    IF loaded.error # "none" THEN [r EXCEPT !.pc = "raised", !.error = loaded.error]
    ELSE IF Strip(loaded.doc.schema) # SCHEMA
         THEN [r EXCEPT !.pc = "raised", !.error = "ValueError"]
    ELSE [r EXCEPT !.pc = "match",
                   !.targets = ValidTargets(loaded.doc.windows),
                   !.current = _live_windows(dk),
                   !.enums = @ + 1]

RestoreLoad ==
    /\ rs.pc = "idle"
    /\ rs' = RestoreLoaded(rs, JsonLoad(fsFile), desk)
    /\ UNCHANGED <<desk, fsFile, sv, scoreVars, assignVars, ui>>

\* destructive and bool(t.get("destructive"))
DestructiveTarget(r, ti) == r.opts.destructive /\ r.targets[ti].destructive

IsEdgeTarget(t) == Lower(t.process_name) = MsEdgeExe

\* used.add(hwnd), recorded with the target and the step that took it
Claim(st, hwnd, ti, step) ==
    [st EXCEPT !.rs.used = @ \cup {hwnd},
               !.rs.claims = Append(@, [hwnd |-> hwnd, tgt |-> ti, step |-> step, n |-> 0])]

\* Placed with a failed placement left out of the skip count
PlacedUncounted(st, ti, hwnd, i, res, step) ==
    [rs |-> [st.rs EXCEPT
               !.applied = IF res.ok THEN @ + 1 ELSE @,
               !.placed_z = IF res.ok THEN Append(@, <<hwnd, st.rs.targets[ti].z_order>>) ELSE @,
               !.edge_applied = IF res.ok /\ IsEdgeTarget(st.rs.targets[ti])
                                THEN Append(@, <<hwnd, ti>>) ELSE @,
               !.calls = Append(@, [op |-> "place", hwnd |-> hwnd, tgt |-> ti,
                                    ok |-> res.ok, step |-> step, n |-> 0])],
     dk |-> DeskWith(st.dk, i, res.win)]

\* The bookkeeping after _apply_placement returned res for target ti.
Placed(st, ti, hwnd, i, res, step) ==
    [rs |-> IF res.ok
            THEN [st.rs EXCEPT
                    !.applied = @ + 1,
                    !.placed_z = Append(@, <<hwnd, st.rs.targets[ti].z_order>>),
                    !.edge_applied = IF IsEdgeTarget(st.rs.targets[ti])
                                     THEN Append(@, <<hwnd, ti>>) ELSE @,
                    !.calls = Append(@, [op |-> "place", hwnd |-> hwnd, tgt |-> ti,
                                         ok |-> TRUE, step |-> step, n |-> 0])]
            ELSE [st.rs EXCEPT
                    !.skipped = @ + 1,
                    !.calls = Append(@, [op |-> "place", hwnd |-> hwnd, tgt |-> ti,
                                         ok |-> FALSE, step |-> step, n |-> 0])],
     dk |-> DeskWith(st.dk, i, res.win)]

PlaceOn(st, ti, hwnd, i, step) ==
    Placed(st, ti, hwnd, i, _apply_placement(WindowAt(st.dk, i, hwnd), st.rs.targets[ti]), step)

\* The desktop without its i-th window.
DeskWithout(dk, i) == SubSeq(dk, 1, i - 1) \o SubSeq(dk, i + 1, Len(dk))

\* PostMessage(WM_CLOSE) on the matched window of a destructive target: the
\* window closes unless the call raises.
CloseOn(st, ti, hwnd, i) ==
    IF i # 0 /\ st.dk[i].mode # "denied"
    THEN [rs |-> [st.rs EXCEPT
                    !.closed = @ + 1,
                    !.missing = Append(@, ti),
                    !.force_launch = Append(@, ti),
                    !.calls = Append(@, [op |-> "close", hwnd |-> hwnd, tgt |-> ti,
                                         ok |-> TRUE, step |-> "match", n |-> 0])],
          dk |-> DeskWithout(st.dk, i)]
    ELSE [rs |-> [st.rs EXCEPT
                    !.missing = Append(@, ti),
                    !.force_launch = Append(@, ti),
                    !.calls = Append(@, [op |-> "close", hwnd |-> hwnd, tgt |-> ti,
                                         ok |-> FALSE, step |-> "match", n |-> 0])],
          dk |-> st.dk]

MatchBest(st, ti, hwnd, i) ==
    IF DestructiveTarget(st.rs, ti) THEN CloseOn(st, ti, hwnd, i)
    ELSE PlaceOn(st, ti, hwnd, i, "match")

\* One round of the matching loop, on the ranking of target ti.
MatchOne(st, ti, ranked) ==
    IF ranked = <<>> \/ ranked[1].score < min_score
    THEN [st EXCEPT !.rs.missing = Append(@, ti),
                    !.rs.force_launch = IF DestructiveTarget(st.rs, ti)
                                        THEN Append(@, ti) ELSE @]
    ELSE MatchBest(Claim(st, ranked[1].candidate.hwnd, ti, "match"), ti,
                   ranked[1].candidate.hwnd, DeskIndex(st.dk, ranked[1].candidate.hwnd))

RECURSIVE MatchLoop(_, _)
MatchLoop(st, ti) ==
    IF ti > Len(st.rs.targets) THEN st
    ELSE MatchLoop(MatchOne(st, ti, _rank_candidates(st.rs.targets[ti], st.rs.current,
                                                     st.rs.used)),
                   ti + 1)

MatchAndPlace ==
    /\ rs.pc = "match"
    /\ \E st \in {MatchLoop([rs |-> rs, dk |-> desk], 1)} :
          /\ rs' = [st.rs EXCEPT !.pc = "launch"]
          /\ desk' = st.dk
    /\ UNCHANGED <<fsFile, sv, scoreVars, assignVars, ui>>

(***************************************************************************)
(* restore_layout: launching what is missing, and the second matching pass *)
(***************************************************************************)
\* os.path.basename
RECURSIVE BaseName(_)
BaseName(path) ==
    IF \E i \in DOMAIN path : path[i] \in {"/", "\\"}
    THEN BaseName(Tail(path))
    ELSE path

\* _normalize_tabs: the tabs with a non-blank url, title and url stripped
_normalize_tabs(tabs) ==
    LET F[i \in 0..Len(tabs)] ==
            IF i = 0 THEN <<>>
            ELSE IF Strip(tabs[i].url) # <<>>
                 THEN Append(F[i - 1], [title |-> Strip(tabs[i].title), url |-> Strip(tabs[i].url)])
                 ELSE F[i - 1]
    IN  F[Len(tabs)]

\* The executable of _get_launch_spec, <<>> for None.
LaunchExe(exe) == IF Lower(BaseName(exe)) \in BLOCKED_PROC THEN <<>> ELSE exe

_get_launch_spec(target) == LaunchExe(OrElse(Strip(target.launch_exe), Strip(target.exe)))

\* ToLaunch without the targets queued by the destructive close
ToLaunchIfAsked(r) ==
    LET Wanted(ti) ==
            /\ r.opts.launch_missing
            /\ ~(/\ r.opts.edge_tabs
                 /\ IsEdgeTarget(r.targets[ti])
                 /\ _normalize_tabs(r.targets[ti].edge_tabs) # <<>>)
        F[k \in 0..Len(r.missing)] ==
            IF k = 0 THEN <<>>
            ELSE IF Wanted(r.missing[k]) THEN Append(F[k - 1], r.missing[k]) ELSE F[k - 1]
    IN  IF r.opts.launch_missing /\ r.missing # <<>>
        THEN F[Len(r.missing)] ELSE <<>>

\* The targets the launch step passes to _launch_target, as indexes, in the
\* order of missing.
ToLaunch(r) ==
    LET Wanted(ti) ==
            /\ r.opts.launch_missing \/ \E k \in DOMAIN r.force_launch : r.force_launch[k] = ti
            /\ ~(/\ r.opts.edge_tabs
                 /\ IsEdgeTarget(r.targets[ti])
                 /\ _normalize_tabs(r.targets[ti].edge_tabs) # <<>>)
        F[k \in 0..Len(r.missing)] ==
            IF k = 0 THEN <<>>
            ELSE IF Wanted(r.missing[k]) THEN Append(F[k - 1], r.missing[k]) ELSE F[k - 1]
    IN  IF (r.opts.launch_missing \/ r.force_launch # <<>>) /\ r.missing # <<>>
        THEN F[Len(r.missing)] ELSE <<>>

SetMax(S) == CHOOSE m \in S : \A x \in S : x <= m

\* A handle the OS has not handed out yet.
FreshHwnd(dk, r) ==
    1 + SetMax({0} \cup {dk[i].hwnd : i \in DOMAIN dk} \cup r.used
                   \cup {r.current[i].hwnd : i \in DOMAIN r.current})

\* Where a freshly started application opens its window.
DefaultRect == <<100, 100, 900, 700>>

\* The window a launched target's process opens.
LaunchedWindow(t, hwnd) ==
    [hwnd |-> hwnd, has_parent |-> FALSE, visible |-> TRUE, title |-> t.title,
     class_name |-> t.class_name, process_name |-> t.process_name, exe |-> t.exe,
     tool |-> FALSE, appwin |-> FALSE, owned |-> FALSE, show_cmd |-> SW_SHOWNORMAL,
     rect |-> DefaultRect, normal_rect |-> DefaultRect,
     user_data_dir |-> t.user_data_dir, profile_directory |-> t.profile_directory,
     mode |-> "ok"]

\* The launch loop: _launch_target succeeds for the targets in started (the
\* executable exists and the process starts); those in shown open a window
\* during the wait, in front of the others.
RECURSIVE LaunchLoop(_, _, _, _)
LaunchLoop(st, todo, started, shown) ==
    IF todo = <<>> THEN st
    ELSE LaunchLoop(
           [rs |-> [st.rs EXCEPT
                      !.launched = IF Head(todo) \in started THEN @ + 1 ELSE @,
                      !.calls = Append(@, [op |-> "launch", hwnd |-> 0, tgt |-> Head(todo),
                                           ok |-> Head(todo) \in started, step |-> "launch", n |-> 0])],
            dk |-> IF Head(todo) \in shown
                   THEN <<LaunchedWindow(st.rs.targets[Head(todo)], FreshHwnd(st.dk, st.rs))>>
                        \o st.dk
                   ELSE st.dk],
           Tail(todo), started, shown)

\* Targets _launch_target can start at all: a launch spec exists.
Launchable(r, todo) ==
    {todo[k] : k \in {j \in DOMAIN todo : _get_launch_spec(r.targets[todo[j]]) # <<>>}}

\* The second matching pass whatever the launch loop started
AfterLaunchAlwaysRematch(r) == [r EXCEPT !.pc = "rematch"]

\* After the launch loop: straight to the final count when nothing started.
AfterLaunch(r) ==
    IF r.launched > 0 THEN [r EXCEPT !.pc = "rematch"]
    ELSE [r EXCEPT !.pc = "stabilize", !.skipped = @ + Len(r.missing)]

LaunchWith(todo, canStart) ==
    \E started \in SUBSET canStart :
       \E shown \in SUBSET started :
          \E st \in {LaunchLoop([rs |-> rs, dk |-> desk], todo, started, shown)} :
             /\ rs' = AfterLaunch(st.rs)
             /\ desk' = st.dk

LaunchMissing ==
    /\ rs.pc = "launch"
    /\ \E todo \in {ToLaunch(rs)} : LaunchWith(todo, Launchable(rs, todo))
    /\ UNCHANGED <<fsFile, sv, scoreVars, assignVars, ui>>

\* One round of the second matching loop.
RematchOne(st, ti, ranked) ==
    IF ranked = <<>> \/ ranked[1].score < min_score
    THEN [st EXCEPT !.rs.still_miss = Append(@, ti)]
    ELSE PlaceOn(Claim(st, ranked[1].candidate.hwnd, ti, "rematch"), ti,
                 ranked[1].candidate.hwnd, DeskIndex(st.dk, ranked[1].candidate.hwnd),
                 "rematch")

RECURSIVE RematchLoop(_, _, _)
RematchLoop(st, k, current2) ==
    IF k > Len(st.rs.missing) THEN st
    ELSE RematchLoop(RematchOne(st, st.rs.missing[k],
                                _rank_candidates(st.rs.targets[st.rs.missing[k]], current2,
                                                 st.rs.used)),
                     k + 1, current2)

\* A second pass that leaves the windows still missing out of the count
RematchUncounted ==
    /\ rs.pc = "rematch"
    /\ \E st \in {RematchLoop([rs |-> [rs EXCEPT !.enums = @ + 1], dk |-> desk],
                              1, _live_windows(desk))} :
          /\ rs' = [st.rs EXCEPT !.pc = "stabilize", !.missing = st.rs.still_miss]
          /\ desk' = st.dk
    /\ UNCHANGED <<fsFile, sv, scoreVars, assignVars, ui>>

Rematch ==
    /\ rs.pc = "rematch"
    /\ \E st \in {RematchLoop([rs |-> [rs EXCEPT !.enums = @ + 1], dk |-> desk],
                              1, _live_windows(desk))} :
          /\ rs' = [st.rs EXCEPT !.pc = "stabilize", !.missing = st.rs.still_miss,
                                 !.skipped = @ + Len(st.rs.still_miss)]
          /\ desk' = st.dk
    /\ UNCHANGED <<fsFile, sv, scoreVars, assignVars, ui>>

(***************************************************************************)
(* restore_layout: Edge size stabilisation and z-order                     *)
(***************************************************************************)
\* A size test that already fires at the threshold.
MismatchFromThreshold(a, b) ==
    \/ Abs((a[3] - a[1]) - (b[3] - b[1])) >= 40
    \/ Abs((a[4] - a[2]) - (b[4] - b[2])) >= 40

_edge_size_mismatch(a, b) ==
    \/ Abs((a[3] - a[1]) - (b[3] - b[1])) > 40
    \/ Abs((a[4] - a[2]) - (b[4] - b[2])) > 40

\* retries of _stabilize_edge when the caller gives none.
StabRetries == 3

\* What a window does on its own during one sleep of _stabilize_edge: it
\* grows by (dw, dh), or it is closed; hwnd 0 is no change at all.
NoChange == [hwnd |-> 0, dw |-> 0, dh |-> 0, closed |-> FALSE]

Resized(w, d) ==
    [w EXCEPT !.rect = <<@[1], @[2], @[3] + d.dw, @[4] + d.dh>>,
              !.normal_rect = IF w.show_cmd = SW_SHOWNORMAL
                              THEN <<@[1], @[2], @[3] + d.dw, @[4] + d.dh>> ELSE @]

Drift(dk, d, i) ==
    IF i = 0 THEN dk
    ELSE IF d.closed THEN SubSeq(dk, 1, i - 1) \o SubSeq(dk, i + 1, Len(dk))
    ELSE [dk EXCEPT ![i] = Resized(dk[i], d)]

\* One poll of one window in the record: the rect read (<<>> when
\* GetWindowRect raised), what became of it ("no" placement, placement
\* "ok", placement "failed"), and the number of calls the run had logged
\* when the rect was read.
Poll(st, hwnd, ti, cur, placed) ==
    [pass |-> st.pass, of |-> st.of, hwnd |-> hwnd, tgt |-> ti, cur |-> cur, placed |-> placed,
     at |-> Len(st.rs.calls)]

\* The bookkeeping of _stabilize_edge after _apply_placement returned res.
StabPlaced(st, hwnd, ti, i, res) ==
    [st EXCEPT
       !.rs.edge_fixes = IF res.ok THEN @ + 1 ELSE @,
       !.rs.calls = Append(@, [op |-> "place", hwnd |-> hwnd, tgt |-> ti,
                               ok |-> res.ok, step |-> "stabilize", n |-> 0]),
       !.rs.polls = Append(@, Poll(st, hwnd, ti, st.dk[i].rect,
                                   IF res.ok THEN "ok" ELSE "failed")),
       !.dk = DeskWith(st.dk, i, res.win),
       !.any_fixed = st.any_fixed \/ res.ok]

\* One window of one retry: GetWindowRect raises for a destroyed handle.
StabOne(st, hwnd, ti, i, t) ==
    IF i = 0 THEN [st EXCEPT !.rs.polls = Append(@, Poll(st, hwnd, ti, <<>>, "no"))]
    ELSE IF _edge_size_mismatch(st.dk[i].rect,
                                OrElse(t.normal_rect, OrElse(t.rect, st.dk[i].rect)))
         THEN StabPlaced(st, hwnd, ti, i, _apply_placement(st.dk[i], t))
         ELSE [st EXCEPT !.rs.polls = Append(@, Poll(st, hwnd, ti, st.dk[i].rect, "no"))]

RECURSIVE StabPass(_, _)
StabPass(st, k) ==
    IF k > Len(st.rs.edge_applied) THEN st
    ELSE StabPass(StabOne(st, st.rs.edge_applied[k][1], st.rs.edge_applied[k][2],
                          DeskIndex(st.dk, st.rs.edge_applied[k][1]),
                          st.rs.targets[st.rs.edge_applied[k][2]]),
                  k + 1)

\* time.sleep(delay) at the head of a pass, during which the desktop does d.
Slept(st, d) ==
    [st EXCEPT !.any_fixed = FALSE, !.pass = @ + 1, !.dk = Drift(@, d, DeskIndex(@, d.hwnd))]

\* The retries: another pass only after a pass that fixed something.  plan
\* has what the desktop does during each sleep.
RECURSIVE _stabilize_edge(_, _, _)
_stabilize_edge(st, retries, plan) ==
    IF retries = 0 \/ ~st.any_fixed THEN st
    ELSE _stabilize_edge(StabPass(Slept(st, Head(plan)), 1), retries - 1, Tail(plan))

StabState(r, dk, retries) ==
    [rs |-> r, dk |-> dk, any_fixed |-> TRUE, pass |-> 0, of |-> retries]

\* restore_layout's call, on a desktop that keeps still meanwhile.
StabilizeEdge ==
    /\ rs.pc = "stabilize"
    /\ \E st \in {_stabilize_edge(StabState(rs, desk, StabRetries), StabRetries,
                                  [k \in 1..StabRetries |-> NoChange])} :
          /\ rs' = [st.rs EXCEPT !.pc = "zorder"]
          /\ desk' = st.dk
    /\ UNCHANGED <<fsFile, sv, scoreVars, assignVars, ui>>

\* sorted(hwnd_z, key=z, reverse=True): stable, the larger z first.
RECURSIVE InsertByZ(_, _)
InsertByZ(sorted, x) ==
    IF sorted = <<>> THEN <<x>>
    ELSE IF Head(sorted)[2] >= x[2]
         THEN <<Head(sorted)>> \o InsertByZ(Tail(sorted), x)
         ELSE <<x>> \o sorted

\* The pairs sorted the other way round, the smaller z first
SortedSmallestFirst(hwnd_z) ==
    LET F[i \in 0..Len(hwnd_z)] ==
            IF i = 0 THEN <<>> ELSE InsertByZ(F[i - 1], hwnd_z[i])
    IN  [k \in 1..Len(hwnd_z) |-> F[Len(hwnd_z)][Len(hwnd_z) + 1 - k]]

SortedByZ(hwnd_z) ==
    LET F[i \in 0..Len(hwnd_z)] ==
            IF i = 0 THEN <<>> ELSE InsertByZ(F[i - 1], hwnd_z[i])
    IN  F[Len(hwnd_z)]

\* SetWindowPos(hwnd, HWND_TOP): the window goes in front of the others,
\* unless the call raises.
ToTop(st, hwnd, i) ==
    IF i # 0 /\ st.dk[i].mode # "denied"
    THEN [rs |-> [st.rs EXCEPT
                    !.z_fixed = @ + 1,
                    !.calls = Append(@, [op |-> "top", hwnd |-> hwnd, tgt |-> 0,
                                         ok |-> TRUE, step |-> "zorder", n |-> 0])],
          dk |-> <<st.dk[i]>> \o DeskWithout(st.dk, i)]
    ELSE [rs |-> [st.rs EXCEPT
                    !.calls = Append(@, [op |-> "top", hwnd |-> hwnd, tgt |-> 0,
                                         ok |-> FALSE, step |-> "zorder", n |-> 0])],
          dk |-> st.dk]

RECURSIVE ZLoop(_, _)
ZLoop(st, ordered) ==
    IF ordered = <<>> THEN st
    ELSE ZLoop(ToTop(st, Head(ordered)[1], DeskIndex(st.dk, Head(ordered)[1])), Tail(ordered))

_restore_z_order(st, hwnd_z) == ZLoop(st, SortedByZ(hwnd_z))

\* The z-order restore run in place of the size stabilisation
RestoreZOrderEarly ==
    /\ rs.pc = "stabilize"
    /\ \E st \in {_restore_z_order([rs |-> rs, dk |-> desk], rs.placed_z)} :
          /\ rs' = [st.rs EXCEPT !.pc = "tabs"]
          /\ desk' = st.dk
    /\ UNCHANGED <<fsFile, sv, scoreVars, assignVars, ui>>

RestoreZOrder ==
    /\ rs.pc = "zorder"
    /\ \E st \in {_restore_z_order([rs |-> rs, dk |-> desk], rs.placed_z)} :
          /\ rs' = [st.rs EXCEPT !.pc = "tabs"]
          /\ desk' = st.dk
    /\ UNCHANGED <<fsFile, sv, scoreVars, assignVars, ui>>

(***************************************************************************)
(* restore_layout: Edge tab replay                                         *)
(*                                                                         *)
(* What the environment decides during the replay is the record env:       *)
(* exeFound (an Edge executable exists), cdpAlive (the debug endpoint      *)
(* answers), cdpFail (the tabs, by position, for which its createTarget    *)
(* request fails), popenOk (Edge                                           *)
(* processes start), appears (a launched Edge window shows up within the   *)
(* wait), input (what the user types at each prompt) and eofAt (the prompt *)
(* at which standard input ends, 0 for never).  The fold state st holds    *)
(* the locals rs, the desktop dk, the tabs counted so far n, the targets   *)
(* still undelivered after the launch step, and the wizard's total wn and  *)
(* whether it ended on EOFError.                                           *)
(***************************************************************************)
DefaultUdd == <<"d","e","f","a","u","l","t","-","u","d","d">>

DefaultProfile == <<"D","e","f","a","u","l","t">>

\* The session a saved Edge window belongs to: (user_data_dir, profile).
GroupKey(t) ==
    <<Strip(OrElse(t.user_data_dir, DefaultUdd)), Strip(OrElse(t.profile_directory, DefaultProfile))>>

\* The Edge targets' indexes, in saved order.
EdgeTargets(targets) ==
    LET F[i \in 0..Len(targets)] ==
            IF i = 0 THEN <<>>
            ELSE IF IsEdgeTarget(targets[i]) THEN Append(F[i - 1], i) ELSE F[i - 1]
    IN  F[Len(targets)]

\* groups: the members of each session, sessions in order of first
\* appearance (a dict keeps insertion order).  keys[k] is the key of the
\* k-th Edge target.
GroupsFrom(edge, keys) ==
    LET First(k) == \A j \in 1..(k - 1) : keys[j] # keys[k]
        Members(k) ==
            LET G[j \in 0..Len(edge)] ==
                    IF j = 0 THEN <<>>
                    ELSE IF keys[j] = keys[k] THEN Append(G[j - 1], edge[j]) ELSE G[j - 1]
            IN  G[Len(edge)]
        F[k \in 0..Len(edge)] ==
            IF k = 0 THEN <<>>
            ELSE IF First(k) THEN Append(F[k - 1], Members(k)) ELSE F[k - 1]
    IN  F[Len(edge)]

KeysOf(targets, edge) == [k \in 1..Len(edge) |-> GroupKey(targets[edge[k]])]

GroupsOn(targets, edge) == GroupsFrom(edge, KeysOf(targets, edge))

EdgeGroups(targets) == GroupsOn(targets, EdgeTargets(targets))

\* hwnd_map.get(id(t)): the handle target ti was placed on, 0 for None.
HwndOf(edge_applied, ti) ==
    IF \E k \in DOMAIN edge_applied : edge_applied[k][2] = ti
    THEN edge_applied[CHOOSE k \in DOMAIN edge_applied :
                         /\ edge_applied[k][2] = ti
                         /\ \A j \in (k + 1)..Len(edge_applied) : edge_applied[j][2] # ti][1]
    ELSE 0

\* A call of the tab replay in the record; tab and wid are set on the calls
\* that open one tab of a target (its position among the target's tabs, and
\* the CDP window id the request names), 0 otherwise.
TabCall(op, hwnd, ti, ok, n) ==
    [op |-> op, hwnd |-> hwnd, tgt |-> ti, ok |-> ok, step |-> "tabs", n |-> n,
     tab |-> 0, wid |-> 0]

\* SetForegroundWindow, then SW_RESTORE when the window is minimised; both
\* inside one try.
Foreground(st, hwnd, i) ==
    IF i # 0 /\ st.dk[i].mode # "denied"
    THEN [st EXCEPT
            !.rs.calls = Append(@, TabCall("foreground", hwnd, 0, TRUE, 0)),
            !.dk = <<IF st.dk[i].show_cmd = SW_SHOWMINIMIZED
                     THEN [st.dk[i] EXCEPT !.show_cmd = SW_SHOWNORMAL,
                                           !.rect = st.dk[i].normal_rect]
                     ELSE st.dk[i]>> \o DeskWithout(st.dk, i)]
    ELSE [st EXCEPT !.rs.calls = Append(@, TabCall("foreground", hwnd, 0, FALSE, 0))]

\* Batches that count one per process started instead of one per url.
BatchesPerCall(st, env, op, hwnd, ti, tabs, acc) ==
    [st EXCEPT
       !.rs.calls = Append(@, TabCall(op, hwnd, ti, env.popenOk, Len(tabs))),
       ![acc] = IF env.popenOk THEN @ + 1 ELSE @]

\* The --new-tab / --new-window batches of one call: all the urls when the
\* processes start, none otherwise; the count goes to field acc of st.
Batches(st, env, op, hwnd, ti, tabs, acc) ==
    [st EXCEPT
       !.rs.calls = Append(@, TabCall(op, hwnd, ti, env.popenOk, Len(tabs))),
       ![acc] = IF env.popenOk THEN @ + Len(tabs) ELSE @]

_open_tabs_via_foreground(st, env, hwnd, ti, tabs, acc) ==
    IF tabs = <<>> \/ ~env.exeFound THEN st
    ELSE Batches(Foreground(st, hwnd, DeskIndex(st.dk, hwnd)), env, "new-tab", hwnd, ti, tabs, acc)

_open_tabs_in_profile(st, env, ti, tabs, new_window, acc) ==
    IF tabs = <<>> \/ ~env.exeFound THEN st
    ELSE Batches(st, env, IF new_window THEN "new-window" ELSE "new-tab", 0, ti, tabs, acc)

\* The last call of the record is for tab j of its target.
TagLast(st, j) == [st EXCEPT !.rs.calls[Len(st.rs.calls)].tab = j]

\* createTarget for tab j of target ti in window wid, answered or not.
CdpRequest(st, ti, j, wid, ok) ==
    [st EXCEPT
       !.rs.calls = Append(@, [TabCall("cdp", 0, ti, ok, 1) EXCEPT !.tab = j, !.wid = wid]),
       !.n = IF ok THEN @ + 1 ELSE @]

\* One tab opened by createTarget and by --new-tab as well
CdpTabBothWays(st, env, ti, tabs, j, wid) ==
    TagLast(_open_tabs_in_profile(CdpRequest(st, ti, j, wid, TRUE), env, ti,
                                  <<tabs[j]>>, FALSE, "n"), j)

\* ── 1. CDP path, one tab: by createTarget into its window when the target
\* has a window id and the request succeeds, else by --new-tab, on its own,
\* into the profile.
CdpTab(st, env, ti, tabs, j, wid) ==
    IF wid # 0 /\ j \notin env.cdpFail THEN CdpRequest(st, ti, j, wid, TRUE)
    ELSE TagLast(_open_tabs_in_profile(IF wid # 0 THEN CdpRequest(st, ti, j, wid, FALSE)
                                       ELSE st,
                                       env, ti, <<tabs[j]>>, FALSE, "n"), j)

\* One target's tabs, in order.
RECURSIVE CdpTarget(_, _, _, _, _, _)
CdpTarget(st, env, ti, tabs, j, wid) ==
    IF j > Len(tabs) THEN st
    ELSE CdpTarget(CdpTab(st, env, ti, tabs, j, wid), env, ti, tabs, j + 1, wid)

RECURSIVE CdpPath(_, _, _)
CdpPath(st, env, members) ==
    IF members = <<>> THEN st
    ELSE CdpPath(CdpTarget(st, env, Head(members),
                           _normalize_tabs(st.rs.targets[Head(members)].edge_tabs), 1,
                           st.rs.targets[Head(members)].cdp_window_id),
                 env, Tail(members))

\* ── 2. Foreground path: the targets that were placed on a live window.
FgTarget(st, env, ti, hwnd) ==
    IF hwnd = 0 THEN st
    ELSE _open_tabs_via_foreground(st, env, hwnd, ti,
                                   _normalize_tabs(st.rs.targets[ti].edge_tabs), "n")

RECURSIVE FgPath(_, _, _)
FgPath(st, env, members) ==
    IF members = <<>> THEN st
    ELSE FgPath(FgTarget(st, env, Head(members), HwndOf(st.rs.edge_applied, Head(members))),
                env, Tail(members))

\* The members without a placed window (undelivered).
Undelivered(r, members) ==
    LET F[k \in 0..Len(members)] ==
            IF k = 0 THEN <<>>
            ELSE IF HwndOf(r.edge_applied, members[k]) = 0
                 THEN Append(F[k - 1], members[k]) ELSE F[k - 1]
    IN  F[Len(members)]

\* ── 3. _launch_and_position_edge_window
\* The first Edge window of the enumeration that is not in used, 0 for None.
FirstFreeEdge(live, used) ==
    IF \E i \in DOMAIN live : Lower(live[i].process_name) = MsEdgeExe /\ live[i].hwnd \notin used
    THEN live[CHOOSE i \in DOMAIN live :
                 /\ Lower(live[i].process_name) = MsEdgeExe /\ live[i].hwnd \notin used
                 /\ \A j \in 1..(i - 1) :
                      ~(Lower(live[j].process_name) = MsEdgeExe /\ live[j].hwnd \notin used)].hwnd
    ELSE 0

\* The window Edge opens for --new-window.
NewEdgeWindow(t, hwnd) ==
    [LaunchedWindow(t, hwnd) EXCEPT !.process_name = MsEdgeExe]

\* The handle found by the poll is taken and positioned; the result of the
\* placement is not looked at.
TakeNewEdge(st, ti, hwnd, i, res) ==
    [st EXCEPT
       !.rs.calls = Append(@, [op |-> "place", hwnd |-> hwnd, tgt |-> ti, ok |-> res.ok,
                               step |-> "edge-launch", n |-> 0]),
       !.dk = DeskWith(st.dk, i, res.win),
       !.ret = hwnd]

PollNewEdge(st, ti, hwnd) ==
    IF hwnd = 0 THEN [st EXCEPT !.ret = 0]
    ELSE TakeNewEdge(Claim(st, hwnd, ti, "edge-launch"), ti, hwnd, DeskIndex(st.dk, hwnd),
                     _apply_placement(WindowAt(st.dk, DeskIndex(st.dk, hwnd), hwnd),
                                      st.rs.targets[ti]))

\* After Popen succeeded: the window may show up; then the poll.
EdgeStarted(st, env, ti) ==
    [st EXCEPT
       !.rs.calls = Append(@, TabCall("new-window", 0, ti, TRUE, 1)),
       !.rs.enums = @ + 1,
       !.dk = IF env.appears
              THEN <<NewEdgeWindow(st.rs.targets[ti], FreshHwnd(st.dk, st.rs))>> \o st.dk
              ELSE st.dk]

PollAfter(st, ti) == PollNewEdge(st, ti, FirstFreeEdge(_live_windows(st.dk), st.rs.used))

\* A launch step that opens one window only and hands it out again for
\* every later target.
LaunchOnce(st, env, ti) ==
    IF \E k \in DOMAIN st.rs.claims : st.rs.claims[k].step = "edge-launch"
    THEN [st EXCEPT !.ret = st.rs.claims[CHOOSE k \in DOMAIN st.rs.claims :
                                            st.rs.claims[k].step = "edge-launch"].hwnd]
    ELSE IF ~env.popenOk
    THEN [st EXCEPT !.rs.calls = Append(@, TabCall("new-window", 0, ti, FALSE, 1)), !.ret = 0]
    ELSE PollAfter(EdgeStarted(st, env, ti), ti)

\* A launch step that starts no browser for a target without saved tabs.
LaunchWithTabsOnly(st, env, ti) ==
    IF _normalize_tabs(st.rs.targets[ti].edge_tabs) = <<>>
    THEN [st EXCEPT !.ret = 0]
    ELSE IF ~env.popenOk
    THEN [st EXCEPT !.rs.calls = Append(@, TabCall("new-window", 0, ti, FALSE, 1)), !.ret = 0]
    ELSE PollAfter(EdgeStarted(st, env, ti), ti)

_launch_and_position_edge_window(st, env, ti) ==
    IF ~env.popenOk
    THEN [st EXCEPT !.rs.calls = Append(@, TabCall("new-window", 0, ti, FALSE, 1)), !.ret = 0]
    ELSE PollAfter(EdgeStarted(st, env, ti), ti)

\* What restore_layout does with the handle it got back for target ti.
AfterEdgeLaunch(st, env, ti, tabs) ==
    IF st.ret = 0 THEN [st EXCEPT !.remaining = Append(@, ti)]
    ELSE [_open_tabs_via_foreground(st, env, st.ret, ti,
                                    IF tabs = <<>> THEN <<>> ELSE Tail(tabs), "ignored")
            EXCEPT !.n = @ + Len(tabs),
                   !.rs.placed_z = Append(@, <<st.ret, st.rs.targets[ti].z_order>>)]

RECURSIVE LaunchPath(_, _, _)
LaunchPath(st, env, todo) ==
    IF todo = <<>> THEN st
    ELSE LaunchPath(AfterEdgeLaunch(_launch_and_position_edge_window(st, env, Head(todo)),
                                    env, Head(todo),
                                    _normalize_tabs(st.rs.targets[Head(todo)].edge_tabs)),
                    env, Tail(todo))

\* ── 4. _interactive_tab_assignment
Digits == <<"0", "1", "2", "3", "4", "5", "6", "7", "8", "9">>

IsDigit(c) == \E d \in DOMAIN Digits : Digits[d] = c

DigitValue(c) == (CHOOSE d \in DOMAIN Digits : Digits[d] = c) - 1

\* str.isdigit
IsDigits(sel) == sel # <<>> /\ \A i \in DOMAIN sel : IsDigit(sel[i])

\* int(sel) for a string of digits
ToInt(sel) ==
    LET F[i \in 0..Len(sel)] == IF i = 0 THEN 0 ELSE 10 * F[i - 1] + DigitValue(sel[i])
    IN  F[Len(sel)]

\* The live Edge windows offered by the wizard.
LiveEdge(live) ==
    LET F[i \in 0..Len(live)] ==
            IF i = 0 THEN <<>>
            ELSE IF Lower(live[i].process_name) = MsEdgeExe
                 THEN Append(F[i - 1], [hwnd |-> live[i].hwnd, title |-> live[i].title])
                 ELSE F[i - 1]
    IN  F[Len(live)]

\* best_i: the first window with the strictly best Jaccard score among those
\* whose union with the saved title's words is not empty, else 0.  tk holds
\* the windows' word sets followed by the saved title's.
BestLive(tk) ==
    LET st == tk[Len(tk)]
        Inter(i) == Cardinality(st \cap tk[i])
        Union(i) == Cardinality(st \cup tk[i])
        scored == {i \in 1..(Len(tk) - 1) : Union(i) > 0}
        best == {i \in scored : \A j \in scored : Inter(j) * Union(i) <= Inter(i) * Union(j)}
    IN  IF best = {} THEN 0 ELSE (CHOOSE i \in best : \A j \in best : i <= j) - 1

WizardTitle(t) == OrElse(t.title, <<"(","u","n","t","i","t","l","e","d",")">>)

SuggestFor(t, live) ==
    BestLive(NormToks(Append([i \in 1..Len(live) |-> live[i].title], WizardTitle(t))))

\* The window index chosen by the answer sel (stripped, lower-cased), -1 for
\* a skip.
WizChoice(sel, best_i, nlive) ==
    IF sel = <<"s">> THEN -1
    ELSE IF sel = <<>> THEN best_i
    ELSE IF ~IsDigits(sel) THEN -1
    ELSE IF ToInt(sel) < nlive THEN ToInt(sel) ELSE -1

WizDeliver(st, env, ti, tabs, live, choice) ==
    IF choice < 0 THEN st
    ELSE _open_tabs_via_foreground(st, env, live[choice + 1].hwnd, ti, tabs, "wn")

\* A step of the last two strategies in the record: the wizard's prompt for
\* a saved window answered ("wizard") or ended by EOFError ("eof"), or the
\* grouped batch for the windows tgts ("batch").
Handled(st, by, tgts) ==
    [st EXCEPT !.rs.handled = Append(@, [by |-> by, tgts |-> tgts, at |-> Len(st.rs.calls)])]

\* One saved group of the wizard: input() raises EOFError at prompt eofAt.
WizOne(st, env, ti, tabs, live) ==
    IF tabs = <<>> THEN st
    ELSE IF env.eofAt = st.prompt THEN [Handled(st, "eof", <<ti>>) EXCEPT !.eof = TRUE]
    ELSE [WizDeliver(Handled(st, "wizard", <<ti>>), env, ti, tabs, live,
                     WizChoice(Lower(Strip(env.input)), SuggestFor(st.rs.targets[ti], live),
                               Len(live)))
            EXCEPT !.prompt = @ + 1]

RECURSIVE _interactive_tab_assignment(_, _, _, _)
_interactive_tab_assignment(st, env, todo, live) ==
    IF todo = <<>> \/ st.eof THEN st
    ELSE _interactive_tab_assignment(
           WizOne(st, env, Head(todo), _normalize_tabs(st.rs.targets[Head(todo)].edge_tabs),
                  live),
           env, Tail(todo), live)

\* ── 5. Last resort: every remaining target's tabs in one --new-window batch.
RECURSIVE AllTabs(_, _)
AllTabs(targets, todo) ==
    IF todo = <<>> THEN <<>>
    ELSE _normalize_tabs(targets[Head(todo)].edge_tabs) \o AllTabs(targets, Tail(todo))

Fallback(st, env) ==
    IF AllTabs(st.rs.targets, st.remaining) = <<>> THEN st
    ELSE _open_tabs_in_profile(Handled(st, "batch", st.remaining), env, 0,
                               AllTabs(st.rs.targets, st.remaining), TRUE, "n")

AfterWizard(st, env) ==
    IF st.eof THEN Fallback(st, env) ELSE [st EXCEPT !.n = @ + st.wn]

WizardOrFallback(st, env, live) ==
    IF live # <<>>
    THEN AfterWizard(_interactive_tab_assignment(st, env, st.remaining, live), env)
    ELSE Fallback(st, env)

AfterLaunchPath(st, env) ==
    IF st.remaining = <<>> THEN st
    ELSE WizardOrFallback([st EXCEPT !.rs.enums = @ + 1], env, LiveEdge(_live_windows(st.dk)))

\* cdp_port: a member has a debug port and the endpoint answers.
HasCdpPort(r, env, members) ==
    env.cdpAlive /\ \E k \in DOMAIN members : r.targets[members[k]].debug_port # 0

\* One session group.
ReplayGroup(st, env, members) ==
    IF HasCdpPort(st.rs, env, members) THEN CdpPath(st, env, members)
    ELSE AfterLaunchPath(LaunchPath(FgPath(st, env, members), env,
                                    Undelivered(st.rs, members)),
                         env)

RECURSIVE ReplayGroups(_, _, _)
ReplayGroups(st, env, groups) ==
    IF groups = <<>> THEN st
    ELSE ReplayGroups(
           ReplayGroup([st EXCEPT !.remaining = <<>>, !.wn = 0, !.eof = FALSE, !.prompt = 1],
                       env, Head(groups)),
           env, Tail(groups))

TabState(r, dk) ==
    [rs |-> r, dk |-> dk, n |-> 0, remaining |-> <<>>, wn |-> 0, eof |-> FALSE,
     prompt |-> 1, ret |-> 0, ignored |-> 0]

\* The createTarget requests that fail: none, the one for a window's second
\* tab, all.
CdpFailSets == {{}, {2}, {1, 2, 3}}

\* What the user may type at a prompt.
WizInputs == {<<>>, <<"S", " ">>, <<"1">>, <<"x">>}

MaxPrompts == 2

\* The environments that differ in something the replay looks at: without
\* an executable no process is started and no request made (the endpoint of
\* a running Edge may be up all the same), createTarget only with a live
\* endpoint, the prompt only when a window is still undelivered after the
\* launches (a launched window that shows up is always taken).
TabEnvs(r) ==
    LET cdp == \E i \in DOMAIN r.targets : IsEdgeTarget(r.targets[i]) /\ r.targets[i].debug_port # 0
        und == \E i \in DOMAIN r.targets :
                  IsEdgeTarget(r.targets[i]) /\ HwndOf(r.edge_applied, i) = 0
    IN  {env \in [exeFound : BOOLEAN, cdpAlive : BOOLEAN, cdpFail : CdpFailSets,
                  popenOk : BOOLEAN, appears : BOOLEAN, input : WizInputs,
                  eofAt : 0..MaxPrompts] :
           /\ ~env.exeFound => ~env.popenOk /\ env.cdpFail = {}
           /\ ~(cdp /\ env.cdpAlive) => ~env.cdpAlive /\ env.cdpFail = {}
           /\ ~(und /\ env.popenOk) => ~env.appears
           /\ ~(und /\ env.exeFound /\ ~(env.popenOk /\ env.appears)) =>
                 env.input = <<>> /\ env.eofAt = 0}

\* What is kept of the environment for the record: whether an executable
\* was found, the endpoint answered, the processes started and the launched
\* windows showed up, and the prompt at which standard input ends.
Seen(env) ==
    [exeFound |-> env.exeFound, cdpAlive |-> env.cdpAlive, popenOk |-> env.popenOk,
     appears |-> env.appears, eofAt |-> env.eofAt]

\* The replay block when --edge-tabs is given, under environment env.
ReplayWith(r, dk, env) ==
    IF env.exeFound /\ EdgeTargets(r.targets) # <<>>
    THEN ReplayGroups(TabState(r, dk), env, EdgeGroups(r.targets))
    ELSE TabState(r, dk)

\* The summary line is printed right after the replay block.
ReplayTabs ==
    /\ rs.pc = "tabs"
    /\ rs.opts.edge_tabs
    /\ \E env \in TabEnvs(rs) :
          \E st \in {ReplayWith(rs, desk, env)} :
             /\ rs' = [st.rs EXCEPT !.pc = "done", !.edge_tabs_opened = st.n,
                                     !.env = Seen(env)]
             /\ desk' = st.dk
    /\ UNCHANGED <<fsFile, sv, scoreVars, assignVars, ui>>

\* Without --edge-tabs the block is skipped.
SkipTabs ==
    /\ rs.pc = "tabs"
    /\ ~rs.opts.edge_tabs
    /\ rs' = [rs EXCEPT !.pc = "done"]
    /\ UNCHANGED <<desk, fsFile, sv, scoreVars, assignVars, ui>>

(***************************************************************************)
(* Desktops and layout files the specifications start from                 *)
(***************************************************************************)
NpProc == <<"N","p",".","e","x","e">>

NpExe == <<"C",":","/","N","p",".","e","x","e">>

EdgeProc == <<"m","s","e","d","g","e",".","e","x","e">>

EdgeExe == <<"C",":","/","m","s","e","d","g","e",".","e","x","e">>

RectA == <<0, 0, 800, 600>>

RectB == <<900, 300, 1700, 900>>

\* An ordinary top-level application window.
AppWindow(proc, exe, cls, title, rect) ==
    [hwnd |-> 0, has_parent |-> FALSE, visible |-> TRUE, title |-> title,
     class_name |-> cls, process_name |-> proc, exe |-> exe, tool |-> FALSE,
     appwin |-> FALSE, owned |-> FALSE, show_cmd |-> SW_SHOWNORMAL, rect |-> rect,
     normal_rect |-> rect, user_data_dir |-> <<>>, profile_directory |-> <<>>,
     mode |-> "ok"]

NoteA == AppWindow(NpProc, NpExe, <<"N","p">>, <<"a">>, RectA)

EdgeA == [AppWindow(EdgeProc, EdgeExe, <<"C","w">>, <<"a">>, RectA)
            EXCEPT !.user_data_dir = DefaultUdd, !.profile_directory = DefaultProfile]

EdgeB == [AppWindow(EdgeProc, EdgeExe, <<"C","w">>, <<"b">>, RectB)
            EXCEPT !.user_data_dir = DefaultUdd, !.profile_directory = DefaultProfile]

\* An Edge window of another profile of the same user data directory.
EdgeP == [AppWindow(EdgeProc, EdgeExe, <<"C","w">>, <<"p">>, RectB)
            EXCEPT !.user_data_dir = DefaultUdd,
                   !.profile_directory = <<"P","r","o","f","i","l","e"," ","1">>]

\* A window of a process whose name and path cannot be queried.
UnknownA == AppWindow(<<>>, <<>>, <<"C","w">>, <<"a">>, RectA)

RectNear == <<20, 20, 820, 620>>

\* Further windows of the same application with the same title: one a few
\* pixels away from NoteA, one across the screen.
NoteNear == AppWindow(NpProc, NpExe, <<"N","p">>, <<"a">>, RectNear)

NoteFar == AppWindow(NpProc, NpExe, <<"N","p">>, <<"a">>, RectB)

\* The windows in the given order, with handles 1, 2, ...
DeskOf(kinds) == [i \in 1..Len(kinds) |-> [kinds[i] EXCEPT !.hwnd = i]]

SeqsUpTo(S, n) == UNION {[1..k -> S] : k \in 0..n}

\* The tabs a capture with --edge-tabs leaves on a saved Edge window.
SavedTabs ==
    <<[title |-> <<"t">>, url |-> <<"u","1">>], [title |-> <<"t">>, url |-> <<"u","2">>],
      [title |-> <<"t">>, url |-> <<"u","3">>]>>

\* A saved Edge window as a later capture of tabs (edge_capture or
\* save_layout --edge-tabs) leaves it: tabs, window id and debug port.  A
\* window whose tabs were assigned by title ("port") has the port and no
\* window id.
WithTabs(w, i, tabs) ==
    IF w.has_edge
    THEN [w EXCEPT !.edge_tabs = SavedTabs,
                   !.cdp_window_id = IF tabs = "cdp" THEN i ELSE 0,
                   !.debug_port = IF tabs \in {"cdp", "port"} THEN 9222 ELSE 0]
    ELSE w

\* The layout editor's Destructive check box.
WithDestructive(w) == [w EXCEPT !.destructive = TRUE]

EditedWindows(windows, tabs, destr) ==
    [i \in 1..Len(windows) |->
        IF destr THEN WithDestructive(IF tabs = "none" THEN windows[i]
                                      ELSE WithTabs(windows[i], i, tabs))
        ELSE IF tabs = "none" THEN windows[i] ELSE WithTabs(windows[i], i, tabs)]

LayoutDoc(schema, windows) ==
    [schema |-> schema, created_at |-> 1, windows |-> windows, extra |-> {}]

(***************************************************************************)
(* Specification SpecRestore: restore_layout on a layout that was saved    *)
(* from one desktop, run against what the desktop has become               *)
(***************************************************************************)
MaxWins == 2

RestoreKinds == {NoteA, EdgeA, EdgeB, UnknownA}

Reversed(d) == [i \in 1..Len(d) |-> d[Len(d) + 1 - i]]

\* What the desktop may have become since the save: unchanged, in another
\* z-order, with a window closed, with all windows closed, or with a second
\* window like the first one opened.
LiveVariants(d) ==
    {d, Reversed(d), <<>>}
    \cup (IF d = <<>> THEN {} ELSE {Tail(d), Append(d, [d[1] EXCEPT !.hwnd = Len(d) + 1])})

\* At most one window on which calls fail: "flaky" fails the first call of a
\* placement, "denied" every call.
WithModes(d) ==
    {d} \cup {[d EXCEPT ![i].mode = m] : i \in DOMAIN d, m \in {"flaky", "denied"}}

RestoreOpts == [launch_missing : BOOLEAN, edge_tabs : BOOLEAN, destructive : BOOLEAN]

LegacySchemas == {SCHEMA \o <<".","v","1">>, SCHEMA \o <<".","v","2">>}

PaddedSchemas == {<<" ">> \o SCHEMA \o <<" ">>}

OtherSchemas == {<<>>, <<"W">> \o Tail(SCHEMA)}

\* A layout written by the current save_layout and possibly edited since.
InitRestoreSaved ==
    \E kinds \in SeqsUpTo(RestoreKinds, MaxWins), tabs \in {"none", "plain", "cdp", "port"},
       destr \in BOOLEAN, opts \in RestoreOpts :
       \E live \in LiveVariants(DeskOf(kinds)) :
          /\ tabs # "none" => \E i \in DOMAIN kinds : kinds[i].process_name = EdgeProc
          /\ desk \in WithModes(live)
          /\ fsFile = CompleteFile(LayoutDoc(SCHEMA,
                         EditedWindows(capture_windows(DeskOf(kinds)), tabs, destr)))
          /\ rs = RsLocals(opts)

\* A layout file with another schema string (written by another version of
\* the tool or edited by hand), a file cut short, or no file.
InitRestoreOther ==
    \E kinds \in SeqsUpTo(RestoreKinds, MaxWins), opts \in RestoreOpts :
       /\ desk = DeskOf(kinds)
       /\ rs = RsLocals(opts)
       /\ \/ \E schema \in LegacySchemas \cup PaddedSchemas \cup OtherSchemas :
                fsFile = CompleteFile(LayoutDoc(schema, capture_windows(desk)))
          \/ \E k \in 0..2 :
                fsFile = [exists |-> TRUE, doc |-> LayoutDoc(SCHEMA, capture_windows(desk)),
                          written |-> k]
          \/ fsFile = NoFile

MaxTrip == 3

TripKinds == RestoreKinds \cup {NoteNear, NoteFar}

\* The orders in which EnumWindows can hand out the windows of d.
EnumOrders(d) ==
    {[i \in DOMAIN d |-> d[f[i]]] :
        f \in {g \in [DOMAIN d -> DOMAIN d] : \A i, j \in DOMAIN d : g[i] = g[j] => i = j}}

\* A layout just saved by save_layout, restored while the same windows are
\* still open where they were, in whatever z-order they now have.
InitRestoreRoundTrip ==
    \E kinds \in [1..2 -> TripKinds] \cup UNION {[1..k -> RestoreKinds] : k \in 2..MaxTrip},
       opts \in {o \in RestoreOpts : ~o.destructive /\ ~o.edge_tabs} :
       /\ desk \in EnumOrders(DeskOf(kinds))
       /\ fsFile = CompleteFile(LayoutDoc(SCHEMA, capture_windows(DeskOf(kinds))))
       /\ rs = RsLocals(opts)

\* A layout with tabs saved from Edge windows of two profiles, restored
\* when Edge is not running.
InitRestoreProfiles ==
    \E kinds \in {<<EdgeA, EdgeP, EdgeB>>, <<EdgeA, EdgeP>>}, launch \in BOOLEAN :
       /\ desk = <<>>
       /\ fsFile = CompleteFile(LayoutDoc(SCHEMA,
                      EditedWindows(capture_windows(DeskOf(kinds)), "plain", FALSE)))
       /\ rs = RsLocals([launch_missing |-> launch, edge_tabs |-> TRUE, destructive |-> FALSE])

InitRestore ==
    /\ InitRestoreSaved \/ InitRestoreOther \/ InitRestoreRoundTrip \/ InitRestoreProfiles
    /\ sv = [pc |-> "off"]
    /\ IdleScore
    /\ IdleAssign
    /\ IdleUi

NextRestore ==
    \/ RestoreLoad
    \/ MatchAndPlace
    \/ LaunchMissing
    \/ Rematch
    \/ StabilizeEdge
    \/ RestoreZOrder
    \/ ReplayTabs
    \/ SkipTabs

SpecRestore == InitRestore /\ [][NextRestore]_vars

(***************************************************************************)
(* Properties of restore_layout                                            *)
(***************************************************************************)
Readable(file) == file.exists /\ file.written = DocSize(file.doc)

\* The claims made so far on handle h
ClaimsOf(r, h) == {k \in DOMAIN r.claims : r.claims[k].hwnd = h}

\* The placement calls made so far in these steps with this outcome
PlaceCalls(r, steps, ok) ==
    {k \in DOMAIN r.calls : /\ r.calls[k].op = "place"
                            /\ r.calls[k].step \in steps
                            /\ r.calls[k].ok = ok}

\* C1: in one restore run no live window handle is taken for more than one
\* saved target: over the first matching pass, the re-match after launching
\* and the browser launch-and-position step, each handle is claimed at most
\* once, and every placement call on a handle is for the one target that
\* claimed it.
C1_GreedyExclusivity ==
    rs.pc \notin {"idle", "raised"} =>
        /\ \A a, b \in DOMAIN rs.claims :
              rs.claims[a].hwnd = rs.claims[b].hwnd => a = b
        /\ \A a, b \in PlaceCalls(rs, {"match", "rematch", "edge-launch"}, TRUE)
                       \cup PlaceCalls(rs, {"match", "rematch", "edge-launch"}, FALSE) :
              rs.calls[a].hwnd = rs.calls[b].hwnd => rs.calls[a].tgt = rs.calls[b].tgt
        /\ \A a \in DOMAIN rs.claims : rs.claims[a].hwnd \in rs.used

\* C1 witness: the run is over, a window was claimed in the first pass, and a
\* later target that the same window would have passed the filter for took
\* another window in the re-match or the browser launch step.
C1_Witness ==
    /\ rs.pc = "done"
    /\ \E a, b \in DOMAIN rs.claims :
          /\ rs.claims[a].step = "match"
          /\ rs.claims[b].step \in {"rematch", "edge-launch"}
          /\ rs.claims[a].tgt # rs.claims[b].tgt
          /\ rs.targets[rs.claims[a].tgt].exe = rs.targets[rs.claims[b].tgt].exe
          /\ rs.claims[a].hwnd # rs.claims[b].hwnd

\* The final summary adds up: every valid saved window is either applied or
\* skipped, and every failed placement and every window still missing is
\* among the skips.
SummaryAddsUp(r) ==
    /\ r.applied + r.skipped = Len(r.targets)
    /\ r.skipped = Cardinality(PlaceCalls(r, {"match", "rematch"}, FALSE)) + Len(r.missing)

\* The steps of restore_layout that can follow each step
PcAfter(pc) ==
    CASE pc = "idle" -> {"match"}
      [] pc = "match" -> {"launch"}
      [] pc = "launch" -> {"rematch", "stabilize"}
      [] pc = "rematch" -> {"stabilize"}
      [] pc = "stabilize" -> {"zorder"}
      [] pc = "zorder" -> {"tabs"}
      [] pc = "tabs" -> {"done"}
      [] OTHER -> {}

\* C7: for a readable layout with the recognised schema, whatever calls on
\* single windows fail, no step of restore_layout raises: each step hands
\* over to the next one on the way to the final summary, and from the final
\* count on each failing window is counted as skipped.
C7_NoWindowFailureAborts ==
    [][(Readable(fsFile) /\ Strip(fsFile.doc.schema) = SCHEMA) =>
          /\ rs'.pc \in PcAfter(rs.pc)
          /\ rs'.pc \in {"stabilize", "zorder", "tabs", "done"} => SummaryAddsUp(rs')]_vars

\* C7 witness: the summary is reached after a placement failed on one window
\* and a launch failed for another target.
C7_Witness ==
    /\ rs.pc = "done"
    /\ PlaceCalls(rs, {"match", "rematch"}, FALSE) # {}
    /\ \E k \in DOMAIN rs.calls : rs.calls[k].op = "launch" /\ ~rs.calls[k].ok
    /\ rs.skipped >= 2

\* restore_layout has raised ValueError without having touched the desktop.
RaisedUntouched(r) ==
    /\ r.pc = "raised"
    /\ r.error = "ValueError"
    /\ r.enums = 0
    /\ r.current = <<>>
    /\ r.used = {}
    /\ r.claims = <<>>
    /\ r.calls = <<>>
    /\ r.closed = 0
    /\ r.launched = 0

\* C8 as stated: a file whose schema string is not the recognised one makes
\* restore_layout raise before any window is enumerated, matched, placed,
\* closed or launched.
C8_Original ==
    (rs.pc # "idle" /\ Readable(fsFile) /\ fsFile.doc.schema # SCHEMA) => RaisedUntouched(rs)

\* C8: a file whose schema string, with surrounding whitespace removed, is
\* not the recognised one makes restore_layout raise before any window is
\* enumerated, matched, placed, closed or launched.
C8_UnrecognisedSchemaFatal ==
    (rs.pc # "idle" /\ Readable(fsFile) /\ Strip(fsFile.doc.schema) # SCHEMA)
        => RaisedUntouched(rs)

\* C8 witness: restore_layout raised on another schema while windows that
\* the saved layout names were open.
C8_Witness ==
    /\ RaisedUntouched(rs)
    /\ Readable(fsFile)
    /\ Strip(fsFile.doc.schema) # SCHEMA
    /\ Len(fsFile.doc.windows) >= 1
    /\ Len(desk) >= 1

\* C9: a readable layout with a legacy schema string is accepted: restore
\* does not reject it.
C9_LegacyAccepted ==
    (Readable(fsFile) /\ fsFile.doc.schema \in LegacySchemas) => rs.pc # "raised"

(***************************************************************************)
(* Properties of save followed by restore                                  *)
(***************************************************************************)
\* Live window c is the window saved as t, unchanged.
SameWindow(t, c) ==
    /\ t.window_id = <<"id", c.hwnd>>
    /\ t.exe = c.exe
    /\ t.process_name = c.process_name
    /\ t.class_name = c.class_name
    /\ t.title = c.title
    /\ t.rect = c.rect
    /\ t.normal_rect = c.normal_rect
    /\ t.show_cmd = c.show_cmd

\* The desktop restore_layout enumerated is the desktop that was saved, and
\* the saved layout was not edited afterwards.
UnchangedDesktop(r, doc) ==
    /\ Len(r.current) = Len(doc.windows)
    /\ \A i \in DOMAIN doc.windows :
          /\ ~doc.windows[i].destructive
          /\ doc.windows[i].edge_tabs = <<>>
          /\ \E j \in DOMAIN r.current : SameWindow(doc.windows[i], r.current[j])

AllPlacementsOk(r) == \A k \in DOMAIN r.calls : r.calls[k].op = "place" => r.calls[k].ok

\* C3: when the live desktop at restore is exactly the desktop that was saved
\* and every placement call succeeds, the summary reports Applied equal to
\* the number of valid saved windows and Launched = 0, whatever the
\* enumeration order and whichever windows share exe, title or rect.
C3_RoundTrip ==
    (rs.pc = "done" /\ Readable(fsFile) /\ UnchangedDesktop(rs, fsFile.doc)
                    /\ AllPlacementsOk(rs))
        => rs.applied = Len(rs.targets) /\ rs.launched = 0

\* Saved targets 1 and 2 are windows of one application with the same title
\* at different rects.
TwinTargets(doc) ==
    /\ Len(doc.windows) = 2
    /\ doc.windows[1].process_name # <<>>
    /\ doc.windows[1].process_name = doc.windows[2].process_name
    /\ doc.windows[1].exe = doc.windows[2].exe
    /\ doc.windows[1].class_name = doc.windows[2].class_name
    /\ doc.windows[1].title = doc.windows[2].title
    /\ doc.windows[1].rect # doc.windows[2].rect

\* Target ti got its own window, and that window is where it was saved.
OwnWindowKept(r, dk, ti) ==
    \E k \in DOMAIN r.claims :
       /\ r.claims[k].tgt = ti
       /\ r.targets[ti].window_id = <<"id", r.claims[k].hwnd>>
       /\ \E i \in DOMAIN dk : dk[i].hwnd = r.claims[k].hwnd /\ dk[i].rect = r.targets[ti].rect

\* C4: for two saved targets of the same process with identical exe, class
\* and title but different rects, and two live windows sitting exactly at
\* those rects, restore matches and places each live window at its own saved
\* rect, for either order of the live windows in the enumeration.
C4_GeometryBreaksTies ==
    (rs.pc = "done" /\ Readable(fsFile) /\ TwinTargets(fsFile.doc)
                    /\ UnchangedDesktop(rs, fsFile.doc))
        => OwnWindowKept(rs, desk, 1) /\ OwnWindowKept(rs, desk, 2)

(***************************************************************************)
(* save_layout and edge_capture                                            *)
(***************************************************************************)
CoreKeys == {"schema", "created_at", "windows"}

\* The items of the top-level object of a document.
TopLevel(doc) ==
    {<<"schema", doc.schema>>, <<"created_at", doc.created_at>>, <<"windows", doc.windows>>}
    \cup doc.extra

\* d[k] when k is a key of the items d, else the default.
ValueOf(d, k, default) ==
    IF \E p \in d : p[1] = k THEN (CHOOSE p \in d : p[1] = k)[2] ELSE default

\* _load_preserved: the preserved top-level keys of the file at the path,
\* none when it is absent or does not parse.
_load_preserved(file) ==
    IF ~file.exists \/ file.written # DocSize(file.doc) THEN {}
    ELSE {p \in TopLevel(file.doc) : p[1] \in PreservedKeys}

\* data.update(preserved): a key of preserved replaces the value data has
\* for it, any other key is added.
DictUpdate(data, preserved) ==
    [schema |-> ValueOf(preserved, "schema", data.schema),
     created_at |-> ValueOf(preserved, "created_at", data.created_at),
     windows |-> ValueOf(preserved, "windows", data.windows),
     extra |-> {p \in data.extra : ~\E q \in preserved : q[1] = p[1]}
               \cup {q \in preserved : q[1] \notin CoreKeys}]

\* edge_wins: the windows of msedge.exe, in order.
EdgeWins(windows) ==
    LET F[i \in 0..Len(windows)] ==
            IF i = 0 THEN <<>>
            ELSE IF IsEdgeTarget(windows[i]) THEN Append(F[i - 1], windows[i]) ELSE F[i - 1]
    IN  F[Len(windows)]

\* w["edge"]["debug_port"] = edge_debug_port on the windows that got tabs
MarkPort(w, port) ==
    IF w.edge_tabs # <<>> /\ w.has_edge THEN [w EXCEPT !.debug_port = port] ELSE w

\* The windows list after _assign_tabs changed its Edge windows in place.
MergeEdge(windows, after, port) ==
    [i \in 1..Len(windows) |->
        IF IsEdgeTarget(windows[i])
        THEN MarkPort(after[Cardinality({j \in 1..i : IsEdgeTarget(windows[j])})], port)
        ELSE windows[i]]

WithEdgeTabs(windows, tabs, port) ==
    MergeEdge(windows, _assign_tabs(EdgeWins(windows), tabs), port)

\* save_layout up to the open() call: the document it is about to write.
SaveData(dk, file, now, withTabs, tabs, port) ==
    LET data == DictUpdate([schema |-> SCHEMA, created_at |-> now,
                            windows |-> capture_windows(dk), extra |-> {}],
                           _load_preserved(file))
    IN  IF withTabs
        THEN [data EXCEPT !.windows = WithEdgeTabs(@, tabs, port)]
        ELSE data

\* edge_capture up to the open() call, on the document json.load returned.
EdgeCaptureData(doc, tabs, port) ==
    [doc EXCEPT !.windows = WithEdgeTabs(doc.windows, tabs, port)]

\* What the debug endpoint returns.
CdpTabs ==
    {<<>>,
     <<[title |-> <<"a">>, url |-> <<"u","1">>, window_id |-> 1]>>,
     <<[title |-> <<"b">>, url |-> <<"u","1">>, window_id |-> 0],
       [title |-> <<"a">>, url |-> <<"u","2">>, window_id |-> 2]>>}

SaveLocals(op, withTabs, file) ==
    [pc |-> "start", op |-> op, capture_edge_tabs |-> withTabs, error |-> "none",
     data |-> <<>>, before |-> file, captured |-> <<>>]

\* save_layout from its start to just before open(path, "w").
SaveLayoutBegin ==
    /\ sv.pc = "start"
    /\ sv.op = "save_layout"
    /\ \E cdpAlive \in BOOLEAN, tabs \in CdpTabs :
          /\ ~sv.capture_edge_tabs => ~cdpAlive /\ tabs = <<>>
          /\ ~cdpAlive => tabs = <<>>
          /\ sv' = [sv EXCEPT !.pc = "open",
                              !.captured = capture_windows(desk),
                              !.data = SaveData(desk, fsFile, 2,
                                                sv.capture_edge_tabs /\ cdpAlive, tabs, 9222)]
    /\ UNCHANGED <<desk, fsFile, rs, scoreVars, assignVars, ui>>

\* edge_capture from its start to just before open(path, "w"), or to its
\* early return or exception.
EdgeCaptureBegin ==
    /\ sv.pc = "start"
    /\ sv.op = "edge_capture"
    /\ \E cdpAlive \in BOOLEAN, tabs \in CdpTabs :
          /\ ~cdpAlive => tabs = <<>>
          /\ sv' = IF ~fsFile.exists
                   THEN [sv EXCEPT !.pc = "raised", !.error = "FileNotFoundError"]
                   ELSE IF ~cdpAlive THEN [sv EXCEPT !.pc = "returned"]
                   ELSE IF JsonLoad(fsFile).error # "none"
                        THEN [sv EXCEPT !.pc = "raised", !.error = JsonLoad(fsFile).error]
                   ELSE IF tabs = <<>> THEN [sv EXCEPT !.pc = "returned"]
                   ELSE [sv EXCEPT !.pc = "open",
                                   !.data = EdgeCaptureData(fsFile.doc, tabs, 9222)]
    /\ UNCHANGED <<desk, fsFile, rs, scoreVars, assignVars, ui>>

\* open(path, "w"): the file is created or cut to length 0.
OpenForWrite ==
    /\ sv.pc = "open"
    /\ fsFile' = [exists |-> TRUE, doc |-> sv.data, written |-> 0]
    /\ sv' = [sv EXCEPT !.pc = "write"]
    /\ UNCHANGED <<desk, rs, scoreVars, assignVars, ui>>

\* json.dump: the next piece of the text reaches the file.
WritePiece ==
    /\ sv.pc = "write"
    /\ fsFile.written < DocSize(fsFile.doc)
    /\ fsFile' = [fsFile EXCEPT !.written = @ + 1]
    /\ UNCHANGED <<desk, sv, rs, scoreVars, assignVars, ui>>

\* The with block ends: the file is closed with all of the text in it.
CloseFile ==
    /\ sv.pc = "write"
    /\ fsFile.written = DocSize(fsFile.doc)
    /\ sv' = [sv EXCEPT !.pc = "done"]
    /\ UNCHANGED <<desk, fsFile, rs, scoreVars, assignVars, ui>>

\* The process is killed (or the machine loses power) during the write.
Crash ==
    /\ sv.pc \in {"open", "write"}
    /\ sv' = [sv EXCEPT !.pc = "crashed"]
    /\ UNCHANGED <<desk, fsFile, rs, scoreVars, assignVars, ui>>

(***************************************************************************)
(* Specification SpecSave: a save_layout or edge_capture on a path, with a *)
(* restore_layout of the same path running at the same time                *)
(***************************************************************************)
MaxSaveWins == 2

SaveKinds == {NoteA, EdgeA}

\* The file at the path before the save: none, or a layout saved earlier,
\* perhaps with the GUI's settings in it.
ExtrasBefore ==
    {{},
     {<<"speed_menu", "m">>, <<"note", "n">>},
     {<<"layouts_root", "r">>, <<"browser_tabs", "t">>}}

FilesBefore ==
    {NoFile}
    \cup {CompleteFile([LayoutDoc(SCHEMA, capture_windows(DeskOf(kinds))) EXCEPT !.extra = x]) :
             kinds \in SeqsUpTo(SaveKinds, 1), x \in ExtrasBefore}

InitSave ==
    /\ desk \in {DeskOf(kinds) : kinds \in SeqsUpTo(SaveKinds, MaxSaveWins)}
    /\ fsFile \in FilesBefore
    /\ \E op \in {"save_layout", "edge_capture"}, withTabs \in BOOLEAN :
          /\ op = "edge_capture" => ~withTabs
          /\ sv = SaveLocals(op, withTabs, fsFile)
    /\ rs \in {RsLocals(o) : o \in {p \in RestoreOpts : ~p.destructive
                                                         /\ p.launch_missing = p.edge_tabs}}
    /\ IdleScore
    /\ IdleAssign
    /\ IdleUi

\* The restore leaves sv alone: its actions have sv in their UNCHANGED.
NextSave ==
    \/ SaveLayoutBegin
    \/ EdgeCaptureBegin
    \/ OpenForWrite
    \/ WritePiece
    \/ CloseFile
    \/ Crash
    \/ NextRestore

SpecSave == InitSave /\ [][NextSave]_vars

\* C10: at every point during a save, including after a crash during the
\* write and while a restore reads the path, the file at the path holds
\* either the complete previous layout or the complete new layout.
C10_AtomicWrite ==
    sv.pc # "off" =>
        \/ fsFile = sv.before
        \/ sv.pc \in {"write", "done", "crashed"} /\ fsFile = CompleteFile(sv.data)


(***************************************************************************)
(* Specification SpecBoundary: the callers of the command line.  The GUI   *)
(* runs window_layout.py in its one QProcess; the hotkey listener of the   *)
(* command line (run_hotkey_listener) and the hotkey thread of the GUI     *)
(* (worker) start it with subprocess.Popen.  A process is a record         *)
(* [pid, by, action, layout]; ui.log has the hotkey events handled;        *)
(* ui.inproc counts the calls of save_layout or restore_layout made inside *)
(* a listener's own process.                                               *)
(***************************************************************************)
MaxEvents == 3

Layouts == {"a.json", "b.json"}

CoreActions == {"save", "restore"}

\* A configured hotkey: the action and the layout path among its args.
HotkeyEntries == [action : CoreActions, layout : Layouts]

\* The registered dictionaries: id 1 is the one hotkey that parsed and
\* registered.
RegisteredSets == {<<h>> : h \in HotkeyEntries}

UiLog(ev, by, action, layout, pid) ==
    [ev |-> ev, by |-> by, action |-> action, layout |-> layout, pid |-> pid]

Proc(pid, by, action, layout) == [pid |-> pid, by |-> by, action |-> action, layout |-> layout]

\* A new process of window_layout.py with its own pid.
Started(u, by, action, layout) ==
    [u EXCEPT !.procs = @ \cup {Proc(u.next, by, action, layout)},
              !.next = @ + 1,
              !.events = @ + 1]

\* QProcess.start: the GUI's one process object is running from here on.
QProcessStart(u, by, action, layout) ==
    [Started(u, by, action, layout) EXCEPT !.qproc = u.next]

\* MainWindow._run(action) on the selected layout; the port prompt of
\* edge_capture may be cancelled.
_run(u, action, layout, cancelled) ==
    IF u.qproc # 0 THEN u
    ELSE IF action = "edge_capture" /\ cancelled THEN u
    ELSE QProcessStart(u, "gui", action, layout)

\* MainWindow._run_speed(entry): restore of the entry's layout, "" when the
\* entry has none.
_run_speed(u, layout) ==
    IF u.qproc # 0 THEN u
    ELSE IF layout = "" THEN u
    ELSE QProcessStart(u, "speed", "restore", layout)

\* A listener that ran the action itself instead of starting a process.
HotkeyInProcess(u, by, h, popenOk) ==
    [u EXCEPT !.inproc = @ + 1, !.events = @ + 1,
              !.log = Append(@, UiLog("call", by, h.action, h.layout, 0))]

\* subprocess.Popen of the hotkey's command; popenOk is whether the process
\* could be created.
HotkeyPopen(u, by, h, popenOk) ==
    IF popenOk
    THEN [Started(u, by, h.action, h.layout)
            EXCEPT !.log = Append(@, UiLog("start", by, h.action, h.layout, u.next))]
    ELSE [u EXCEPT !.events = @ + 1,
                   !.log = Append(@, UiLog("popen-failed", by, h.action, h.layout, 0))]

\* _run_hotkey_action: Popen inside try / except Exception: pass.
_run_hotkey_action(u, h, popenOk) == HotkeyPopen(u, "worker", h, popenOk)

\* The WM_HOTKEY branch of run_hotkey_listener: an exception of Popen is
\* not caught by except KeyboardInterrupt, the finally clause unregisters
\* the hotkeys and the listener ends.
ListenerHotkey(u, h, popenOk) ==
    [HotkeyPopen(u, "listener", h, popenOk) EXCEPT !.listener = IF popenOk THEN @ ELSE "ended"]

\* The listener of the command line and the GUI with its hotkey thread,
\* each with the hotkeys it registered.
UiStart(registered, hotkeys) ==
    [pc |-> "on", qproc |-> 0, procs |-> {}, next |-> 1, events |-> 0, log |-> <<>>,
     inproc |-> 0, registered |-> registered, listener |-> "loop",
     hotkeys |-> hotkeys, worker |-> "loop"]

InitBoundary ==
    /\ \E registered \in RegisteredSets, hotkeys \in RegisteredSets :
          ui = UiStart(registered, hotkeys)
    /\ IdleScore
    /\ IdleAssign
    /\ IdleDesk

Room == ui.events < MaxEvents

\* A click on one of the GUI's action buttons.
GuiRun ==
    /\ ui.pc = "on" /\ Room
    /\ \E action \in CoreActions \cup {"edge_capture"}, layout \in Layouts, cancelled \in BOOLEAN :
          ui' = _run(ui, action, layout, cancelled)
    /\ UNCHANGED <<scoreVars, assignVars, deskVars>>

\* A click on an entry of the speed menu.
GuiRunSpeed ==
    /\ ui.pc = "on" /\ Room
    /\ \E layout \in Layouts \cup {""} : ui' = _run_speed(ui, layout)
    /\ UNCHANGED <<scoreVars, assignVars, deskVars>>

\* WM_HOTKEY in the GUI's hotkey thread.
WorkerHotkey ==
    /\ ui.pc = "on" /\ Room /\ ui.worker = "loop"
    /\ \E wparam \in 1..2, popenOk \in BOOLEAN :
          ui' = IF wparam \in DOMAIN ui.hotkeys
                THEN _run_hotkey_action(ui, ui.hotkeys[wparam], popenOk)
                ELSE ui
    /\ UNCHANGED <<scoreVars, assignVars, deskVars>>

\* WM_HOTKEY in run_hotkey_listener.
CliHotkey ==
    /\ ui.pc = "on" /\ Room /\ ui.listener = "loop"
    /\ \E wparam \in 1..2, popenOk \in BOOLEAN :
          ui' = IF wparam \in DOMAIN ui.registered
                THEN ListenerHotkey(ui, ui.registered[wparam], popenOk)
                ELSE ui
    /\ UNCHANGED <<scoreVars, assignVars, deskVars>>

\* WM_QUIT ends a message loop.
ListenerQuit ==
    /\ ui.pc = "on"
    /\ \/ ui.listener = "loop" /\ ui' = [ui EXCEPT !.listener = "ended"]
       \/ ui.worker = "loop" /\ ui' = [ui EXCEPT !.worker = "ended"]
    /\ UNCHANGED <<scoreVars, assignVars, deskVars>>

\* A started process ends; the GUI's QProcess is NotRunning again when it
\* was its process.
ProcExit ==
    /\ ui.pc = "on"
    /\ \E p \in ui.procs :
          ui' = [ui EXCEPT !.procs = @ \ {p},
                           !.qproc = IF @ = p.pid THEN 0 ELSE @]
    /\ UNCHANGED <<scoreVars, assignVars, deskVars>>

NextBoundary ==
    \/ GuiRun
    \/ GuiRunSpeed
    \/ WorkerHotkey
    \/ CliHotkey
    \/ ListenerQuit
    \/ ProcExit

SpecBoundary == InitBoundary /\ [][NextBoundary]_vars

\* The running save and restore processes.
Invocations == {p \in ui.procs : p.action \in CoreActions}

\* C11: at no time do two save or restore processes started by the GUI or a
\* hotkey listener run against the same layout.
C11_ExclusiveInvocation ==
    ui.pc = "on" =>
        \A p, q \in Invocations : p.layout = q.layout => p = q

HotkeyEvents == {i \in DOMAIN ui.log : ui.log[i].by \in {"listener", "worker"}}

\* C12: a hotkey listener never runs save_layout or restore_layout in its
\* own process; every hotkey event it handles is one subprocess.Popen, and
\* each process so started has a pid of its own, shared with no process
\* started before or after it.
C12_HotkeySpawnsProcess ==
    ui.pc = "on" =>
        /\ ui.inproc = 0
        /\ \A i \in HotkeyEvents :
              /\ ui.log[i].ev \in {"start", "popen-failed"}
              /\ ui.log[i].ev = "start" =>
                    /\ ui.log[i].pid # 0
                    /\ \A j \in DOMAIN ui.log : ui.log[j].pid = ui.log[i].pid => j = i
        /\ \A p \in ui.procs :
              p.by \in {"listener", "worker"} =>
                 \E i \in HotkeyEvents : ui.log[i].ev = "start" /\ ui.log[i].pid = p.pid

\* A hotkey was pressed while an earlier invocation was still running, in
\* the listener of the command line and in the GUI's thread.
C12_Witness ==
    /\ ui.pc = "on"
    /\ \E i, j \in HotkeyEvents :
          /\ ui.log[i].by = "listener" /\ ui.log[j].by = "worker"
          /\ ui.log[i].ev = "start" /\ ui.log[j].ev = "start"
          /\ \E p, q \in ui.procs : p.pid = ui.log[i].pid /\ q.pid = ui.log[j].pid

(***************************************************************************)
(* Properties of the Edge tab replay                                       *)
(***************************************************************************)
\* The replay block has run, in environment rs.env.
Replayed == rs.pc = "done" /\ rs.opts.edge_tabs /\ rs.env # <<>>

SavedTabsOf(ti) == _normalize_tabs(rs.targets[ti].edge_tabs)

\* The saved Edge windows with tabs that were matched and placed.
PlacedWithTabs ==
    {ti \in DOMAIN rs.targets :
        /\ IsEdgeTarget(rs.targets[ti])
        /\ SavedTabsOf(ti) # <<>>
        /\ HwndOf(rs.edge_applied, ti) # 0}

AllEdgePlaced ==
    \A ti \in DOMAIN rs.targets :
       IsEdgeTarget(rs.targets[ti]) => HwndOf(rs.edge_applied, ti) # 0

RECURSIVE TabTotal(_)
TabTotal(S) ==
    IF S = {} THEN 0
    ELSE LET ti == CHOOSE x \in S : TRUE IN Len(SavedTabsOf(ti)) + TabTotal(S \ {ti})

\* Target ti's tabs went, all of them and once, into its own window by the
\* foreground-shift.
ForegroundShifted(ti) ==
    /\ \E k \in DOMAIN rs.calls :
          rs.calls[k] = TabCall("new-tab", HwndOf(rs.edge_applied, ti), ti, TRUE,
                                Len(SavedTabsOf(ti)))
    /\ \A k, j \in DOMAIN rs.calls :
          /\ rs.calls[k].step = "tabs" /\ rs.calls[k].tgt = ti
          /\ rs.calls[j].step = "tabs" /\ rs.calls[j].tgt = ti
          => k = j

FgCounted ==
    /\ \A ti \in PlacedWithTabs : ForegroundShifted(ti)
    /\ AllEdgePlaced => rs.edge_tabs_opened = TabTotal(PlacedWithTabs)

NoLiveEdge ==
    /\ \A i \in DOMAIN rs.current : Lower(rs.current[i].process_name) # MsEdgeExe
    /\ \A k \in DOMAIN rs.claims : rs.claims[k].step = "edge-launch"

\* The calls that open tabs, in the order they were made.
TabOpens ==
    LET Opens(c) == c.step = "tabs" /\ c.op \in {"new-window", "new-tab", "cdp"}
    IN  SelectSeq(rs.calls, Opens)

\* The --new-window launches among them.
Launches ==
    LET IsLaunch(c) == c.op = "new-window"
    IN  SelectSeq(TabOpens, IsLaunch)

\* The window launched for target ti, 0 when none was taken.
LaunchedFor(ti) ==
    IF \E k \in DOMAIN rs.claims : rs.claims[k].tgt = ti /\ rs.claims[k].step = "edge-launch"
    THEN rs.claims[CHOOSE k \in DOMAIN rs.claims :
                      rs.claims[k].tgt = ti /\ rs.claims[k].step = "edge-launch"].hwnd
    ELSE 0

\* Every call that opens tabs is for one saved window; a window's --new-tab
\* call goes to the window launched for it and carries the tabs after the
\* first.
NeverMerged ==
    \A k \in DOMAIN TabOpens :
       /\ TabOpens[k].tgt # 0
       /\ TabOpens[k].op = "new-tab" =>
             /\ TabOpens[k].hwnd = LaunchedFor(TabOpens[k].tgt) /\ TabOpens[k].hwnd # 0
             /\ TabOpens[k].n = Len(SavedTabsOf(TabOpens[k].tgt)) - 1

\* Each saved Edge window has exactly one launch of its own, and a window
\* of its own from it.
OwnLaunches ==
    \A ti \in DOMAIN rs.targets :
       IsEdgeTarget(rs.targets[ti]) =>
          /\ \E k \in DOMAIN Launches : Launches[k].tgt = ti /\ Launches[k].ok
          /\ LaunchedFor(ti) # 0
          /\ \A tj \in DOMAIN rs.targets : LaunchedFor(tj) = LaunchedFor(ti) => tj = ti
          /\ \A k, j \in DOMAIN Launches : Launches[k].tgt = ti /\ Launches[j].tgt = ti => k = j
          /\ Len(SavedTabsOf(ti)) > 1 =>
                \E k \in DOMAIN TabOpens : TabOpens[k].op = "new-tab" /\ TabOpens[k].tgt = ti

SavedOrder ==
    \A k, j \in DOMAIN Launches : k < j => Launches[k].tgt < Launches[j].tgt

\* Saved order among the windows of one session (user data directory and
\* profile).
SavedOrderInSession ==
    \A k, j \in DOMAIN Launches :
       /\ k < j /\ Launches[k].tgt # 0 /\ Launches[j].tgt # 0
       /\ GroupKey(rs.targets[Launches[k].tgt]) = GroupKey(rs.targets[Launches[j].tgt])
       => Launches[k].tgt < Launches[j].tgt

HasEdgeTargets == \E ti \in DOMAIN rs.targets : IsEdgeTarget(rs.targets[ti])

InPlace(ti) ==
    \E k \in DOMAIN rs.claims, i \in DOMAIN rs.current :
       /\ rs.claims[k].tgt = ti /\ rs.claims[k].step = "match"
       /\ rs.current[i].hwnd = rs.claims[k].hwnd
       /\ Lower(rs.current[i].process_name) = MsEdgeExe
       /\ rs.current[i].title = rs.targets[ti].title
       /\ rs.current[i].rect = rs.targets[ti].rect

AllInPlace ==
    \A ti \in DOMAIN rs.targets : IsEdgeTarget(rs.targets[ti]) => InPlace(ti)

\* C17: when every saved browser window is matched to a live browser window
\* that already has the saved title and rect, a restore with tab replay
\* opens no tabs: no process is started for the existing windows and none
\* for a new window.
C17_NoRelaunchInPlace ==
    Replayed /\ HasEdgeTargets /\ AllInPlace =>
        \A k \in DOMAIN TabOpens : ~TabOpens[k].ok

(***************************************************************************)
(* Properties of _assign_tabs, stated on one call: asWins are the windows  *)
(* passed in, asWins' the windows it leaves.                               *)
(***************************************************************************)
\* The valid windowIds among the tabs.
GroupWids == {asTabs[i].window_id : i \in {j \in DOMAIN asTabs : ValidWid(asTabs[j].window_id)}}

\* The part of sequence s from position a on, n long.
Slice(s, a, n) == [k \in 1..n |-> s[a + k - 1]]

\* Window w of wins holds the tabs of group wid, all of them, together and
\* in their input order.
HoldsGroup(wins, w, wid) ==
    \E a \in 1..(Len(wins[w].edge_tabs) + 1) :
       /\ a + Len(GroupOf(asTabs, wid)) - 1 <= Len(wins[w].edge_tabs)
       /\ Slice(wins[w].edge_tabs, a, Len(GroupOf(asTabs, wid))) = PlainTabs(GroupOf(asTabs, wid))

\* Window w of wins holds some tab of group wid (the urls tell the tabs
\* apart).
HoldsSome(wins, w, wid) ==
    \E k \in DOMAIN wins[w].edge_tabs, i \in DOMAIN asTabs :
       asTabs[i].window_id = wid /\ wins[w].edge_tabs[k].url = asTabs[i].url

\* C14: a group of tabs whose windowId equals the hint recorded on a saved
\* browser window is assigned to a window that had that hint, whatever the
\* other groups and the titles are.
C14_HintPriority ==
    [][asPc = "input" /\ asTabs # <<>> =>
         \A wid \in GroupWids :
            (\E w \in DOMAIN asWins : asWins[w].cdp_window_id = wid) =>
               \E w \in DOMAIN asWins :
                  asWins[w].cdp_window_id = wid /\ HoldsGroup(asWins', w, wid)]_vars

\* C15: the tabs of one valid windowId are never split: a saved window that
\* gets any of them gets all of them, together and in their input order, no
\* other window gets any, and no saved window gets tabs of two different
\* windowIds.
C15_GroupedByWindow ==
    [][asPc = "input" /\ asTabs # <<>> =>
         /\ \A wid \in GroupWids, w \in DOMAIN asWins :
               HoldsSome(asWins', w, wid) =>
                  /\ HoldsGroup(asWins', w, wid)
                  /\ \A v \in DOMAIN asWins : HoldsSome(asWins', v, wid) => v = w
         /\ \A w \in DOMAIN asWins, g, h \in GroupWids :
               HoldsSome(asWins', w, g) /\ HoldsSome(asWins', w, h) => g = h]_vars

\* Two groups, one of them of two tabs, went to two saved windows.
C15_Witness ==
    /\ asPc = "assigned"
    /\ \E g, h \in GroupWids, w, v \in DOMAIN asWins :
          /\ g # h /\ w # v
          /\ Len(GroupOf(asTabs, g)) >= 2
          /\ HoldsGroup(asWins, w, g) /\ HoldsGroup(asWins, v, h)

(***************************************************************************)
(* Specification SpecStabilize: _stabilize_edge on the windows a restore   *)
(* has just placed, while Edge resizes or closes them between the polls    *)
(***************************************************************************)
\* An Edge window maximised, minimised, and snapped to the left half of
\* the monitor.
EdgeMax == [EdgeA EXCEPT !.show_cmd = SW_SHOWMAXIMIZED, !.rect = Monitors[1]]

EdgeMin == [EdgeA EXCEPT !.show_cmd = SW_SHOWMINIMIZED, !.rect = IconicRect]

EdgeSnap == [EdgeA EXCEPT !.rect = <<0, 0, 960, 1080>>]

StabKinds ==
    {<<EdgeA>>, <<EdgeA, EdgeB>>, <<EdgeB, NoteA>>, <<EdgeMax>>, <<EdgeMin>>, <<EdgeSnap>>}

\* By how much a window may grow during one sleep: up to the threshold, one
\* pixel over it, far off.
DriftSizes == {<<40, 0>>, <<0, 41>>, <<-300, -200>>}

DriftChoices(edge_applied) ==
    {NoChange}
    \cup {[hwnd |-> edge_applied[k][1], dw |-> d[1], dh |-> d[2], closed |-> FALSE] :
             k \in DOMAIN edge_applied, d \in DriftSizes}
    \cup {[hwnd |-> edge_applied[k][1], dw |-> 0, dh |-> 0, closed |-> TRUE] :
             k \in DOMAIN edge_applied}

InitStabilize ==
    /\ \E kinds \in StabKinds :
          /\ desk \in WithModes(DeskOf(kinds))
          /\ fsFile = CompleteFile(LayoutDoc(SCHEMA, capture_windows(DeskOf(kinds))))
    /\ rs = RsLocals([launch_missing |-> FALSE, edge_tabs |-> FALSE, destructive |-> FALSE])
    /\ sv = [pc |-> "off"]
    /\ IdleScore
    /\ IdleAssign
    /\ IdleUi

\* _stabilize_edge(edge_applied, retries) called on what the restore placed.
StabilizeDrift ==
    /\ rs.pc = "stabilize"
    /\ \E retries \in 1..StabRetries :
          \E plan \in [1..retries -> DriftChoices(rs.edge_applied)] :
             \E st \in {_stabilize_edge(StabState(rs, desk, retries), retries, plan)} :
                /\ rs' = [st.rs EXCEPT !.pc = "stabilized"]
                /\ desk' = st.dk
    /\ UNCHANGED <<fsFile, sv, scoreVars, assignVars, ui>>

NextStabilize ==
    \/ RestoreLoad
    \/ MatchAndPlace
    \/ LaunchMissing
    \/ StabilizeDrift

SpecStabilize == InitStabilize /\ [][NextStabilize]_vars

\* The rect the poll compares with: normal_rect, else rect, else what was
\* read.
WantOf(pl) == OrElse(rs.targets[pl.tgt].normal_rect, OrElse(rs.targets[pl.tgt].rect, pl.cur))

\* Width or height more than 40 pixels apart.
Differs(cur, want) ==
    LET dw == (cur[3] - cur[1]) - (want[3] - want[1])
        dh == (cur[4] - cur[2]) - (want[4] - want[2])
    IN  dw > 40 \/ dw < -40 \/ dh > 40 \/ dh < -40

PollsWhere(placed) == {k \in DOMAIN rs.polls : rs.polls[k].placed \in placed}

LastPass == IF rs.polls = <<>> THEN 0 ELSE rs.polls[Len(rs.polls)].pass

\* C18: _stabilize_edge re-applies the placement in exactly the polls in
\* which the width or the height read differs from the target's by more
\* than 40 pixels; it makes at most retries passes, goes on to another pass
\* only after a pass with a successful re-application, and returns the
\* number of successful re-applications.
C18_StabilizeEdge ==
    rs.pc = "stabilized" =>
        /\ \A k \in DOMAIN rs.polls :
              /\ rs.polls[k].placed # "no" <=>
                    rs.polls[k].cur # <<>> /\ Differs(rs.polls[k].cur, WantOf(rs.polls[k]))
              /\ rs.polls[k].pass \in 1..rs.polls[k].of
              /\ rs.polls[k].pass > 1 =>
                    \E j \in PollsWhere({"ok"}) : rs.polls[j].pass = rs.polls[k].pass - 1
              /\ rs.polls[k].pass = LastPass /\ rs.polls[k].placed = "ok" =>
                    LastPass = rs.polls[k].of
        /\ Cardinality({c \in DOMAIN rs.calls : rs.calls[c].step = "stabilize"})
              = Cardinality(PollsWhere({"ok", "failed"}))
        /\ rs.edge_fixes = Cardinality(PollsWhere({"ok"}))

\* One window read twice: off by more than 40 pixels at the first poll and
\* put back, in place at the second: one fix, one placement call, two of
\* the three passes made.
C18_Witness ==
    /\ rs.pc = "stabilized"
    /\ Len(rs.polls) = 2
    /\ rs.polls[1].placed = "ok" /\ Differs(rs.polls[1].cur, WantOf(rs.polls[1]))
    /\ rs.polls[2].placed = "no" /\ rs.polls[2].cur = WantOf(rs.polls[2])
    /\ rs.polls[2].pass = 2 /\ rs.polls[2].of = 3
    /\ rs.edge_fixes = 1
    /\ Cardinality({c \in DOMAIN rs.calls : rs.calls[c].step = "stabilize"}) = 1

(***************************************************************************)
(* Specification SpecCapture: capture_windows on a desktop with windows    *)
(* of every sort the filter looks at                                       *)
(***************************************************************************)
MaxCapWins == 2

\* NoteA and what it is with one thing changed.
CaptureKinds ==
    {NoteA,
     [NoteA EXCEPT !.has_parent = TRUE],
     [NoteA EXCEPT !.visible = FALSE],
     [NoteA EXCEPT !.title = <<" ", " ">>],
     [NoteA EXCEPT !.class_name = <<" ","P","r","o","g","m","a","n">>],
     [NoteA EXCEPT !.process_name = <<"D","W","M",".","e","x","e">>],
     [NoteA EXCEPT !.tool = TRUE],
     [NoteA EXCEPT !.owned = TRUE, !.appwin = TRUE],
     [NoteA EXCEPT !.rect = <<0, 0, 120, 80>>, !.normal_rect = <<0, 0, 120, 80>>],
     [NoteA EXCEPT !.rect = <<0, 0, 119, 600>>, !.normal_rect = <<0, 0, 119, 600>>],
     [NoteA EXCEPT !.rect = <<0, 0, 800, 79>>, !.normal_rect = <<0, 0, 800, 79>>],
     [NoteA EXCEPT !.show_cmd = SW_SHOWMINIMIZED, !.rect = IconicRect],
     [NoteA EXCEPT !.show_cmd = SW_SHOWMINIMIZED, !.rect = IconicRect, !.visible = FALSE],
     [NoteA EXCEPT !.show_cmd = SW_SHOWMAXIMIZED, !.rect = Monitors[1]]}

InitCapture ==
    /\ \E n \in 1..MaxCapWins : \E kinds \in [1..n -> CaptureKinds] : desk = DeskOf(kinds)
    /\ fsFile = NoFile
    /\ sv = [pc |-> "capture", windows |-> <<>>]
    /\ rs = [pc |-> "off"]
    /\ IdleScore
    /\ IdleAssign
    /\ IdleUi

CaptureCall ==
    /\ sv.pc = "capture"
    /\ sv' = [pc |-> "captured", windows |-> capture_windows(desk)]
    /\ UNCHANGED <<desk, fsFile, rs, scoreVars, assignVars, ui>>

NextCapture == CaptureCall

SpecCapture == InitCapture /\ [][NextCapture]_vars

\* The capture has an entry for the window with handle hwnd.
Captured(hwnd) == \E k \in DOMAIN sv.windows : sv.windows[k].window_id = <<"id", hwnd>>

Minimized(w) == w.show_cmd = SW_SHOWMINIMIZED

BelowFloor(w) == (w.rect[3] - w.rect[1]) < 120 \/ (w.rect[4] - w.rect[2]) < 80

\* Parent, invisible, blank title, class or process on the exclusion list.
Excluded(w) ==
    \/ w.has_parent
    \/ ~w.visible
    \/ \A i \in DOMAIN w.title : w.title[i] = " "
    \/ Lower(Strip(w.class_name)) \in BLOCKED_CLASS
    \/ Lower(w.process_name) \in BLOCKED_PROC

\* A tool window or an owned window without the app-window flag.
ToolOrOwned(w) == (w.tool \/ w.owned) /\ ~w.appwin

\* C19: capture_windows has no entry for a window with a parent, an
\* invisible window, a window with a blank title or one whose class or
\* process is on the exclusion list, and none for a window below 120x80
\* that is not minimised; a minimised window below the floor that passes
\* the other filters has its entry.
C19_CaptureAdmission ==
    sv.pc = "captured" =>
        \A i \in DOMAIN desk :
           /\ Excluded(desk[i]) => ~Captured(desk[i].hwnd)
           /\ BelowFloor(desk[i]) /\ ~Minimized(desk[i]) => ~Captured(desk[i].hwnd)
           /\ Minimized(desk[i]) /\ BelowFloor(desk[i]) /\ ~Excluded(desk[i])
                 /\ ~ToolOrOwned(desk[i]) => Captured(desk[i].hwnd)

\* A minimised window below the floor was captured next to a window below
\* the floor that is not minimised and was left out.
C19_Witness ==
    /\ sv.pc = "captured"
    /\ \E i, j \in DOMAIN desk :
          /\ Minimized(desk[i]) /\ BelowFloor(desk[i]) /\ Captured(desk[i].hwnd)
          /\ ~Minimized(desk[j]) /\ BelowFloor(desk[j]) /\ ~Excluded(desk[j])
          /\ ~Captured(desk[j].hwnd)


(***************************************************************************)
(* Placement on a handle that cannot be reached                            *)
(***************************************************************************)
\* The windows of the desktop on which every call fails
BadHandles(dk) == {dk[i].hwnd : i \in {j \in DOMAIN dk : dk[j].mode = "denied"}}

\* The placement calls a step added to the log
NewPlaceCalls(r, r2) ==
    {k \in DOMAIN r2.calls \ DOMAIN r.calls : r2.calls[k].op = "place"}

\* C20: in the matching passes of restore_layout, _apply_placement on a
\* handle on which every call fails (primary path and fallback path) does
\* not raise: the step hands over to the next one, the call is logged as
\* failed, the saved target entries and the window are left as they were,
\* and each such call adds one to the skipped count.
C20_BadHandleIsSkipped ==
    [][rs.pc \in {"match", "rematch"} =>
          /\ rs'.pc \in PcAfter(rs.pc)
          /\ rs'.targets = rs.targets
          /\ \A k \in NewPlaceCalls(rs, rs') :
                rs'.calls[k].hwnd \in BadHandles(desk) =>
                   /\ ~rs'.calls[k].ok
                   /\ WindowAt(desk', DeskIndex(desk', rs'.calls[k].hwnd), rs'.calls[k].hwnd)
                        = desk[DeskIndex(desk, rs'.calls[k].hwnd)]
          /\ rs'.skipped - rs.skipped >=
                Cardinality({k \in NewPlaceCalls(rs, rs') :
                               rs'.calls[k].hwnd \in BadHandles(desk)})]_vars

\* C20 witness: the first matching pass is over, a target with a usable
\* rect was matched to a window on which every call fails, the placement
\* returned failure and the window was counted as skipped.
C20_Witness ==
    /\ rs.pc = "launch"
    /\ rs.skipped >= 1
    /\ \E k \in PlaceCalls(rs, {"match"}, FALSE) :
          /\ rs.calls[k].hwnd \in BadHandles(desk)
          /\ PlacementRect(rs.targets[rs.calls[k].tgt]) # <<>>

(***************************************************************************)
(* save_layout: what goes into the new file                                *)
(***************************************************************************)
LegacyTabKeys == {"browser_tabs", "edge_sessions", "open_urls"}

\* A saved window without what the tab capture adds to it
WithoutTabs(w) == [w EXCEPT !.cdp_window_id = 0, !.debug_port = 0, !.edge_tabs = <<>>]

\* save_layout has built the document it writes.
SaveBuilt == sv.pc \in {"open", "write", "done", "crashed"} /\ sv.op = "save_layout"

\* C21: save_layout over a layout file that parses carries the preserved
\* keys of that file (speed_menu, custom_layout_folders, layouts_root) with
\* their values into the new document and no other further key; schema,
\* created_at and windows of the new document are those of the new capture;
\* no top-level browser_tabs, edge_sessions or open_urls is written, tabs
\* are on the windows only; and the file that was closed holds exactly that
\* document.
C21_PreservedRoundTrip ==
    SaveBuilt =>
        /\ sv.data.extra = IF sv.before.exists
                            THEN {p \in sv.before.doc.extra : p[1] \in PreservedKeys}
                            ELSE {}
        /\ sv.data.schema = SCHEMA
        /\ sv.data.created_at = 2
        /\ Len(sv.data.windows) = Len(sv.captured)
        /\ \A i \in DOMAIN sv.captured : WithoutTabs(sv.data.windows[i]) = sv.captured[i]
        /\ \A p \in TopLevel(sv.data) : p[1] \notin LegacyTabKeys
        /\ sv.pc = "done" => fsFile = CompleteFile(sv.data)

\* C21 witness: a save with tab capture over a file that had layouts_root
\* and a top-level browser_tabs is finished; the new file has layouts_root
\* with its value, a creation time other than the old one, and tabs on an
\* Edge window.
C21_Witness ==
    /\ SaveBuilt
    /\ sv.pc = "done"
    /\ sv.before.exists
    /\ <<"browser_tabs", "t">> \in sv.before.doc.extra
    /\ <<"layouts_root", "r">> \in fsFile.doc.extra
    /\ fsFile.doc.created_at # sv.before.doc.created_at
    /\ \E i \in DOMAIN fsFile.doc.windows : fsFile.doc.windows[i].edge_tabs # <<>>

(***************************************************************************)
(* The order of the phases of restore_layout                               *)
(***************************************************************************)
\* The phase that follows each phase.  Matching and placing are one loop
\* ("match"); launching the missing targets is followed by the second
\* matching loop only when something was launched.
PhaseAfter(pc) ==
    CASE pc = "idle" -> {"match", "raised"}
      [] pc = "match" -> {"launch"}
      [] pc = "launch" -> {"rematch", "stabilize"}
      [] pc = "rematch" -> {"stabilize"}
      [] pc = "stabilize" -> {"zorder"}
      [] pc = "zorder" -> {"tabs"}
      [] pc = "tabs" -> {"done"}
      [] OTHER -> {}

\* The phase in which a logged call is made.
PhaseOfStep(step) == IF step = "edge-launch" THEN "tabs" ELSE step

\* The calls and the handles taken that a step added to the logs
NewCalls(r, r2) == {r2.calls[k] : k \in DOMAIN r2.calls \ DOMAIN r.calls}

NewClaims(r, r2) == {r2.claims[k] : k \in DOMAIN r2.claims \ DOMAIN r.claims}

TabsIntoPlaced ==
    {k \in DOMAIN rs.calls :
        /\ rs.calls[k].step = "tabs"
        /\ rs.calls[k].op \in {"new-tab", "cdp"}
        /\ rs.calls[k].ok
        /\ rs.calls[k].tgt \in PlacedWithTabs}

\* C23: when the tab replay of a run has opened tabs for a matched and
\* placed browser window, the size of that window is polled after that
\* opening within the same run.
C23_StabilizeAfterTabs ==
    Replayed =>
        \A k \in TabsIntoPlaced :
           \E p \in DOMAIN rs.polls :
              rs.polls[p].tgt = rs.calls[k].tgt /\ rs.polls[p].at >= k

(***************************************************************************)
(* Z-order restore                                                         *)
(***************************************************************************)
\* C24: once _restore_z_order has run (the run is in its tab phase or
\* done), no step of the run makes a placement call on any window.
C24_ZOrderLast ==
    [][rs.pc \in {"tabs", "done"} => \A c \in NewCalls(rs, rs') : c.op # "place"]_vars

(***************************************************************************)
(* Specification SpecZOrder: one call of _restore_z_order on a list of     *)
(* (handle, saved z) pairs, over a desktop on which a handle of the list   *)
(* may be destroyed or may refuse every call                               *)
(***************************************************************************)
MaxZWins == 3

\* The saved z of the pairs: small enough for ties to happen.
ZValues == 0..2

\* Lists of pairs with distinct handles; handle MaxZWins + 1 is of a window
\* that no longer exists.
ZPairLists ==
    {l \in UNION {[1..n -> (1..(MaxZWins + 1)) \X ZValues] : n \in 0..MaxZWins} :
        \A i, j \in DOMAIN l : i # j => l[i][1] # l[j][1]}

ZDesks ==
    {d \in WithModes(DeskOf([i \in 1..MaxZWins |-> NoteA])) :
        \A i \in DOMAIN d : d[i].mode # "flaky"}

InitZOrder ==
    /\ desk \in ZDesks
    /\ \E l \in ZPairLists : rs = [pc |-> "zcall", hwnd_z |-> l, calls |-> <<>>, z_fixed |-> 0]
    /\ fsFile = NoFile
    /\ sv = [pc |-> "off"]
    /\ IdleScore
    /\ IdleAssign
    /\ IdleUi

\* success = _restore_z_order(hwnd_z)
ZOrderCall ==
    /\ rs.pc = "zcall"
    /\ \E st \in {_restore_z_order([rs |-> rs, dk |-> desk], rs.hwnd_z)} :
          /\ rs' = [st.rs EXCEPT !.pc = "zreturned"]
          /\ desk' = st.dk
    /\ UNCHANGED <<fsFile, sv, scoreVars, assignVars, ui>>

NextZOrder == ZOrderCall

SpecZOrder == InitZOrder /\ [][NextZOrder]_vars

\* The saved z of a handle of the list.
SavedZ(l, hwnd) == l[CHOOSE i \in DOMAIN l : l[i][1] = hwnd][2]

\* C25: _restore_z_order makes one bring-to-top call per pair, in descending
\* saved z; a call fails exactly on a handle that is destroyed or refuses
\* it, and the others are still made; the count returned is the number of
\* calls that succeeded; and when every call succeeded, a window of the
\* list with a smaller saved z is in front of one with a larger saved z,
\* and a window with the smallest saved z is the frontmost window.
C25_ZOrderResult ==
    rs.pc = "zreturned" =>
        /\ Len(rs.calls) = Len(rs.hwnd_z)
        /\ {rs.calls[k].hwnd : k \in DOMAIN rs.calls} = {rs.hwnd_z[i][1] : i \in DOMAIN rs.hwnd_z}
        /\ \A k \in DOMAIN rs.calls :
              /\ rs.calls[k].op = "top"
              /\ rs.calls[k].ok <=> /\ DeskIndex(desk, rs.calls[k].hwnd) # 0
                                     /\ desk[DeskIndex(desk, rs.calls[k].hwnd)].mode # "denied"
        /\ \A k, j \in DOMAIN rs.calls :
              k < j => SavedZ(rs.hwnd_z, rs.calls[k].hwnd) >= SavedZ(rs.hwnd_z, rs.calls[j].hwnd)
        /\ rs.z_fixed = Cardinality({k \in DOMAIN rs.calls : rs.calls[k].ok})
        /\ (\A k \in DOMAIN rs.calls : rs.calls[k].ok) =>
              /\ \A a, b \in DOMAIN rs.hwnd_z :
                    rs.hwnd_z[a][2] < rs.hwnd_z[b][2] =>
                       DeskIndex(desk, rs.hwnd_z[a][1]) < DeskIndex(desk, rs.hwnd_z[b][1])
              /\ rs.hwnd_z # <<>> =>
                    \A b \in DOMAIN rs.hwnd_z : SavedZ(rs.hwnd_z, desk[1].hwnd) <= rs.hwnd_z[b][2]

\* C25 witness: a call returned on three pairs given out of z order, the
\* pair with saved z 0 on the window that was at the back; every call
\* succeeded and that window is now the frontmost.
C25_Witness ==
    /\ rs.pc = "zreturned"
    /\ rs.hwnd_z = <<<<2, 1>>, <<3, 0>>, <<1, 2>>>>
    /\ rs.z_fixed = 3
    /\ desk[1].hwnd = 3

(***************************************************************************)
(* The pre-filter of _rank_candidates                                      *)
(***************************************************************************)
\* Candidate c is of the executable of target t or, when an exe is not
\* known, of the process of that name.
SameProgram(c, t) ==
    IF t.exe # <<>> /\ c.exe # <<>>
    THEN Lower(c.exe) = Lower(t.exe)
    ELSE Lower(c.process_name) = Lower(t.process_name)

\* The entry of the snapshot with this handle.
CurrentOf(r, hwnd) == r.current[CHOOSE i \in DOMAIN r.current : r.current[i].hwnd = hwnd]

\* C26: after the first matching pass, every window accepted for a target
\* was unused when it was taken and is of the same executable as the target
\* or, when an exe is unknown, of the process of the same name.
C26_RankerPrefilter ==
    rs.pc = "launch" =>
        /\ \A a, b \in DOMAIN rs.claims : a # b => rs.claims[a].hwnd # rs.claims[b].hwnd
        /\ \A k \in DOMAIN rs.claims :
              SameProgram(CurrentOf(rs, rs.claims[k].hwnd), rs.targets[rs.claims[k].tgt])

(***************************************************************************)
(* Destructive mode                                                        *)
(***************************************************************************)
\* The first matching pass is over.
Matched == rs.pc \in {"launch", "rematch", "stabilize", "zorder", "tabs", "done"}

\* The launch step is over.
LaunchDone == rs.pc \in {"rematch", "stabilize", "zorder", "tabs", "done"}

InSeq(x, seq) == \E k \in DOMAIN seq : seq[k] = x

\* A browser target whose tabs the tab replay of this run takes care of.
LeftToTabReplay(ti) ==
    /\ rs.opts.edge_tabs
    /\ IsEdgeTarget(rs.targets[ti])
    /\ SavedTabsOf(ti) # <<>>

\* Target ti, matched to window hwnd in the first pass, was closed and
\* queued again instead of placed: a close request was posted to the
\* window, no placement was made on the window nor for the target in that
\* pass, the target is in the forced launches and, until the launch step
\* has run, among the missing.
ClosedAndQueued(ti, hwnd) ==
    /\ \E c \in DOMAIN rs.calls :
          rs.calls[c].op = "close" /\ rs.calls[c].hwnd = hwnd /\ rs.calls[c].tgt = ti
    /\ \A c \in DOMAIN rs.calls :
          rs.calls[c].op = "place" =>
             /\ rs.calls[c].hwnd # hwnd
             /\ ~(rs.calls[c].tgt = ti /\ rs.calls[c].step = "match")
    /\ InSeq(ti, rs.force_launch)
    /\ rs.pc = "launch" => InSeq(ti, rs.missing)

\* The launch step passed target ti to _launch_target.
LaunchTried(ti) ==
    \E c \in DOMAIN rs.calls : rs.calls[c].op = "launch" /\ rs.calls[c].tgt = ti

MissedInMatch(ti) ==
    \/ ~\E k \in DOMAIN rs.claims : rs.claims[k].tgt = ti /\ rs.claims[k].step = "match"
    \/ \E c \in DOMAIN rs.calls : rs.calls[c].op = "close" /\ rs.calls[c].tgt = ti

\* The windows taken for target ti in the second matching pass.
RematchClaims(ti) ==
    {k \in DOMAIN rs.claims : rs.claims[k].tgt = ti /\ rs.claims[k].step = "rematch"}

LaunchFailed(ti) ==
    \E c \in DOMAIN rs.calls :
       rs.calls[c].op = "launch" /\ rs.calls[c].tgt = ti /\ ~rs.calls[c].ok

\* With launch-missing on, the launch step passed to _launch_target, once,
\* every target that was missing except the browser targets left to the tab
\* replay, and no other target.
LaunchedTheMissing ==
    /\ \A ti \in DOMAIN rs.targets :
          LaunchTried(ti) <=> MissedInMatch(ti) /\ ~LeftToTabReplay(ti)
    /\ \A a, b \in DOMAIN rs.calls :
          rs.calls[a].op = "launch" /\ rs.calls[b].op = "launch" /\ a # b
             => rs.calls[a].tgt # rs.calls[b].tgt

\* The run is between the launch step (with its second matching pass) and
\* the stabilisation, with launch-missing on.
AfterLaunching == rs.pc = "stabilize" /\ rs.opts.launch_missing

MatchedHwnd(ti) ==
    IF \E k \in DOMAIN rs.claims : rs.claims[k].tgt = ti /\ rs.claims[k].step # "edge-launch"
    THEN rs.claims[CHOOSE k \in DOMAIN rs.claims :
                      rs.claims[k].tgt = ti /\ rs.claims[k].step # "edge-launch"].hwnd
    ELSE 0

\* C29: when no debug endpoint answers (an Edge executable is found, its
\* processes start, and the run is not destructive), every saved browser
\* window with tabs that a matching pass matched to a live window gets its
\* tabs by a foreground call on that window followed by one --new-tab launch
\* with all its tabs, and no --new-window launch is made for it.
C29_ForegroundShiftMatched ==
    Replayed /\ ~rs.env.cdpAlive /\ rs.env.exeFound /\ rs.env.popenOk /\ ~rs.opts.destructive =>
        \A ti \in DOMAIN rs.targets :
           IsEdgeTarget(rs.targets[ti]) /\ SavedTabsOf(ti) # <<>> /\ MatchedHwnd(ti) # 0 =>
              /\ \E k \in DOMAIN rs.calls :
                    /\ rs.calls[k] = TabCall("new-tab", MatchedHwnd(ti), ti, TRUE,
                                              Len(SavedTabsOf(ti)))
                    /\ k > 1
                    /\ rs.calls[k - 1].op = "foreground"
                    /\ rs.calls[k - 1].hwnd = MatchedHwnd(ti)
              /\ \A k \in DOMAIN rs.calls :
                    rs.calls[k].op = "new-window" => rs.calls[k].tgt # ti

(***************************************************************************)
(* The CDP path of the tab replay                                          *)
(***************************************************************************)
\* The saved Edge windows of the session groups that have a debug port
\* saved and a live endpoint.
CdpServed ==
    {ti \in DOMAIN rs.targets :
        \E g \in DOMAIN EdgeGroups(rs.targets) :
           /\ InSeq(ti, EdgeGroups(rs.targets)[g])
           /\ HasCdpPort(rs, rs.env, EdgeGroups(rs.targets)[g])}

\* The calls of the replay for tab j of target ti, in the order made.
CallsForTab(ti, j) ==
    LET ForTab(c) == c.step = "tabs" /\ c.tgt = ti /\ c.tab = j
    IN  SelectSeq(rs.calls, ForTab)

\* Nothing but single-tab createTarget requests and single-tab --new-tab
\* launches was done for target ti: no batch, no new window, no window
\* taken or placed for it by the replay.
OnlySingleTabCalls(ti) ==
    /\ \A k \in DOMAIN rs.calls :
          rs.calls[k].step \in {"tabs", "edge-launch"} /\ rs.calls[k].tgt = ti =>
             /\ rs.calls[k].step = "tabs"
             /\ rs.calls[k].op \in {"cdp", "new-tab"}
             /\ rs.calls[k].n = 1
             /\ rs.calls[k].tab \in DOMAIN SavedTabsOf(ti)
    /\ \A k \in DOMAIN rs.claims : rs.claims[k].step = "edge-launch" => rs.claims[k].tgt # ti

\* No call of the replay is outside the single-tab calls: no window was
\* brought to the foreground and none launched.
NoLaterStrategy ==
    \A k \in DOMAIN rs.calls :
       rs.calls[k].step \in {"tabs", "edge-launch"} => rs.calls[k].tgt \in CdpServed

\* C30 as stated: every saved tab of a group served over the debug endpoint
\* is opened exactly once.
C30_Original ==
    Replayed =>
        /\ \A ti \in CdpServed :
              /\ OnlySingleTabCalls(ti)
              /\ \A j \in DOMAIN SavedTabsOf(ti) :
                    \E c \in {CallsForTab(ti, j)} :
                       Cardinality({k \in DOMAIN c : c[k].ok}) = 1
        /\ CdpServed = {ti \in DOMAIN rs.targets : IsEdgeTarget(rs.targets[ti])}
              => NoLaterStrategy

\* C30: without an Edge executable the replay does nothing.  With one, for
\* every saved tab of a group served over the debug endpoint, when the
\* window has a saved CDP window id one createTarget request naming that
\* id is made, and if it succeeds nothing else is done for the tab; if it
\* fails, or the window has no saved id, one --new-tab launch with that tab
\* alone is made, which opens it when the process starts.  Nothing else is
\* done for the windows of the group: no foreground call, no new window, no
\* prompt, no batch.
C30_CdpPath ==
    /\ Replayed /\ ~rs.env.exeFound =>
          \A k \in DOMAIN rs.calls : rs.calls[k].step \notin {"tabs", "edge-launch"}
    /\ Replayed /\ rs.env.exeFound =>
        /\ \A ti \in CdpServed :
              /\ OnlySingleTabCalls(ti)
              /\ \A j \in DOMAIN SavedTabsOf(ti) :
                    \E c \in {CallsForTab(ti, j)}, wid \in {rs.targets[ti].cdp_window_id} :
                       /\ c # <<>>
                       /\ wid # 0 => c[1].op = "cdp" /\ c[1].wid = wid
                       /\ c[1].op = "cdp" /\ c[1].ok => Len(c) = 1
                       /\ c[1].op = "cdp" /\ ~c[1].ok => Len(c) = 2
                       /\ c[Len(c)].op = "cdp" => c[Len(c)].ok /\ wid # 0
                       /\ c[Len(c)].op = "new-tab" =>
                             /\ c[Len(c)].ok = rs.env.popenOk
                             /\ c[Len(c)].hwnd = 0
                             /\ Len(c) = IF wid # 0 THEN 2 ELSE 1
                       /\ Cardinality({k \in DOMAIN c : c[k].ok}) =
                             IF c[1].ok \/ rs.env.popenOk THEN 1 ELSE 0
        /\ CdpServed = {ti \in DOMAIN rs.targets : IsEdgeTarget(rs.targets[ti])}
              => NoLaterStrategy

\* C30 witness: a window with three tabs was served over the debug endpoint;
\* the request for its second tab failed and that tab was opened by a
\* --new-tab launch of its own, the other two by createTarget.
C30_Witness ==
    /\ Replayed
    /\ rs.edge_tabs_opened = 3
    /\ \E ti \in CdpServed :
          /\ Len(SavedTabsOf(ti)) = 3
          /\ Len(CallsForTab(ti, 1)) = 1 /\ CallsForTab(ti, 1)[1].ok
          /\ Len(CallsForTab(ti, 2)) = 2 /\ CallsForTab(ti, 2)[2].op = "new-tab"
          /\ CallsForTab(ti, 2)[2].ok
          /\ Len(CallsForTab(ti, 3)) = 1 /\ CallsForTab(ti, 3)[1].op = "cdp"

(***************************************************************************)
(* The last two steps of the tab replay: the wizard and the grouped batch  *)
(***************************************************************************)
\* The saved Edge windows with tabs still undelivered after the launch
\* step: not served over the endpoint, not placed, and no launched window
\* taken for them.
LeftAfterLaunch ==
    {ti \in DOMAIN rs.targets :
        /\ IsEdgeTarget(rs.targets[ti])
        /\ SavedTabsOf(ti) # <<>>
        /\ ti \notin CdpServed
        /\ HwndOf(rs.edge_applied, ti) = 0
        /\ \A k \in DOMAIN rs.claims :
              rs.claims[k].step = "edge-launch" => rs.claims[k].tgt # ti}

\* The wizard asked about the window and got an answer.
ByWizard(ti) ==
    \E k \in DOMAIN rs.handled : rs.handled[k].by = "wizard" /\ rs.handled[k].tgts = <<ti>>

\* The window's tabs were part of a grouped batch.
ByBatch(ti) ==
    \E k \in DOMAIN rs.handled : rs.handled[k].by = "batch" /\ InSeq(ti, rs.handled[k].tgts)

\* Standard input never ends: the process is attached to a terminal.
OnTerminal == rs.env.eofAt = 0

\* Standard input is at its end from the first prompt on: no terminal.
NoTerminal == rs.env.eofAt = 1

\* C31: a saved browser window with tabs that is still undelivered after the
\* launch step goes to the wizard when the process is attached to a
\* terminal and into the grouped batch otherwise, never to both.
C31_WizardOrBatch ==
    Replayed /\ rs.env.exeFound =>
        \A ti \in LeftAfterLaunch :
           /\ OnTerminal => ByWizard(ti)
           /\ NoTerminal => ByBatch(ti)
           /\ ~(ByWizard(ti) /\ ByBatch(ti))

(***************************************************************************)
(* Specification SpecPlace: one call of _apply_placement, on a window in   *)
(* any show state, for an entry saved from a window placed anywhere, under *)
(* several monitor arrangements                                            *)
(***************************************************************************)
\* A second monitor to the right of the first, or to its left.
MonitorRight == <<1920, 0, 3840, 1080>>

MonitorLeft == <<-1920, 0, 0, 1080>>

\* What the monitor query gives: nothing (it raised, or no monitor), one
\* monitor, two.
PlaceMonitors ==
    {<<>>, Monitors, Monitors \o <<MonitorRight>>, Monitors \o <<MonitorLeft>>}

\* Where the saved window was: on the first monitor, beside it on each
\* side, across a corner, touching an edge from outside, covering the
\* monitor, and wider than the monitor far outside.
PlaceRects ==
    {RectA, <<2000, 100, 2800, 700>>, <<-900, 100, -100, 700>>, <<100, -700, 900, -100>>,
     <<100, 1200, 900, 1800>>, <<1900, 1000, 2700, 1600>>, <<1920, 0, 2720, 600>>,
     <<-200, -200, 2200, 1300>>, <<3000, 0, 5200, 1300>>}

\* The rects Aero Snap gives: the halves of the first monitor and a half of
\* each neighbour.
SnapRects ==
    {<<0, 0, 960, 1080>>, <<960, 0, 1920, 1080>>, <<1920, 0, 2880, 1080>>,
     <<-960, 0, 0, 1080>>}

\* The windows the entries were saved from.
PlaceSavedKinds ==
    {[NoteA EXCEPT !.rect = r, !.normal_rect = r] : r \in PlaceRects}
    \cup {[NoteA EXCEPT !.rect = r] : r \in SnapRects}
    \cup {[NoteA EXCEPT !.show_cmd = SW_SHOWMINIMIZED, !.rect = IconicRect, !.normal_rect = r] :
             r \in {RectA, <<2000, 100, 2800, 700>>}}
    \cup {[NoteA EXCEPT !.show_cmd = SW_SHOWMAXIMIZED, !.rect = Monitors[1], !.normal_rect = r] :
             r \in {RectA, <<2000, 100, 2800, 700>>}}

CapturedEntries == {capture_windows(DeskOf(<<k>>))[1] : k \in PlaceSavedKinds}

\* Entries of older layouts or edited by hand: without restore_rect, without
\* any rect, with a rect smaller than the minimum size, without show_cmd.
EditedEntries ==
    {[e EXCEPT !.restore_rect = <<>>] : e \in {c \in CapturedEntries : c.is_snapped}}
    \cup {[e EXCEPT !.restore_rect = <<>>, !.rect = <<>>, !.normal_rect = <<>>] :
             e \in {c \in CapturedEntries : c.rect = RectA}}
    \cup {[e EXCEPT !.restore_rect = <<10, 10, 60, 50>>, !.show_cmd = 0] :
             e \in {c \in CapturedEntries : c.rect \in {RectA, <<0, 0, 960, 1080>>}}}

PlaceEntries == CapturedEntries \cup EditedEntries

\* The live window: in each show state, and answering, failing the first
\* call or failing every call.
PlaceLive ==
    {[w EXCEPT !.mode = m] :
        w \in {NoteA,
                [NoteA EXCEPT !.show_cmd = SW_SHOWMINIMIZED, !.rect = IconicRect],
                [NoteA EXCEPT !.show_cmd = SW_SHOWMAXIMIZED, !.rect = Monitors[1]]},
        m \in {"ok", "flaky", "denied"}}

InitPlace ==
    /\ \E w \in PlaceLive : desk = DeskOf(<<w>>)
    /\ \E e \in PlaceEntries, b \in PlaceMonitors :
          rs = [pc |-> "pcall", entry |-> e, bounds |-> b, asked |-> <<>>, clamped |-> <<>>,
                ok |-> FALSE, path |-> "none", ops |-> <<>>]
    /\ fsFile = NoFile
    /\ sv = [pc |-> "off"]
    /\ IdleScore
    /\ IdleAssign
    /\ IdleUi

\* left, top, w, h as _apply_placement passes them to _clamp.
AskedOf(rr) == <<rr[1], rr[2], Max(80, rr[3] - rr[1]), Max(60, rr[4] - rr[2])>>

\* _apply_placement from the clamp on, under the monitors bounds.
PlaceClamped(w, r, asked, clamped) ==
    \E res \in {ApplyPlacementAt(w, r.entry, ClampedRect(clamped))} :
       /\ rs' = [r EXCEPT !.pc = "returned", !.asked = asked, !.clamped = clamped,
                           !.ok = res.ok, !.path = res.path, !.ops = res.ops]
       /\ desk' = <<res.win>>

PlaceWith(rr) ==
    IF Len(rr) < 4
    THEN rs' = [rs EXCEPT !.pc = "returned"] /\ UNCHANGED desk
    ELSE PlaceClamped(desk[1], rs, AskedOf(rr),
                 _clamp(rr[1], rr[2], Max(80, rr[3] - rr[1]), Max(60, rr[4] - rr[2]), rs.bounds))

PlaceCall ==
    /\ rs.pc = "pcall"
    /\ PlaceWith(OrElse(rs.entry.restore_rect, OrElse(rs.entry.rect, rs.entry.normal_rect)))
    /\ UNCHANGED <<fsFile, sv, scoreVars, assignVars, ui>>

NextPlace == PlaceCall

SpecPlace == InitPlace /\ [][NextPlace]_vars

(***************************************************************************)
(* Placement of a snapped target                                           *)
(***************************************************************************)
\* _apply_placement returned for a snapped entry after calling the OS.
SnappedPlaced == rs.pc = "returned" /\ rs.entry.is_snapped /\ rs.ops # <<>>

NoSetPlacement ==
    \A k \in DOMAIN rs.ops : rs.ops[k].api \notin {"SetWindowPlacement", "GetWindowPlacement"}

\* Two rects, each <<left, top, right, bottom>>, share an area.
Overlap(a, b) == a[1] < b[3] /\ b[1] < a[3] /\ a[2] < b[4] /\ b[2] < a[4]

\* The rect the entry asks for is of the minimum size at least and on a
\* monitor (or no monitor is known).
AskedAsSaved(rr) ==
    /\ rr[3] - rr[1] >= 80 /\ rr[4] - rr[2] >= 60
    /\ rs.bounds = <<>> \/ \E m \in DOMAIN rs.bounds : Overlap(rr, rs.bounds[m])

\* C32 as stated: for a snapped target no call writes the remembered
\* normal position, and the only calls are a non-activating restore of the
\* show state and a move to the rect captured while snapped.
C32_Original ==
    SnappedPlaced =>
        /\ NoSetPlacement
        /\ \A k \in DOMAIN rs.ops :
              \/ rs.ops[k].api = "ShowWindow" /\ rs.ops[k].show = SW_SHOWNOACTIVATE
              \/ rs.ops[k].api = "MoveWindow" /\ rs.ops[k].rect = rs.entry.restore_rect

\* C32: for a snapped target no call reads or writes the window placement
\* on either path.  The primary path is ShowWindow(SW_SHOWNOACTIVATE) and
\* MoveWindow; the fallback path, entered when a call of the primary path
\* raised, is ShowWindow(SW_RESTORE), MoveWindow and ShowWindow with the
\* saved show command.  Every MoveWindow is to the clamped rect, which is
\* the saved one when that is of the minimum size and on a monitor.
C32_SnappedPlacement ==
    SnappedPlaced =>
        \E r \in {ClampedRect(rs.clamped)},
           rr \in {OrElse(rs.entry.restore_rect, OrElse(rs.entry.rect, rs.entry.normal_rect))} :
           /\ NoSetPlacement
           /\ \A k \in DOMAIN rs.ops : rs.ops[k].api = "MoveWindow" => rs.ops[k].rect = r
           /\ AskedAsSaved(rr) => r = rr
           /\ rs.ops[1] = [api |-> "ShowWindow", show |-> SW_SHOWNOACTIVATE, rect |-> <<>>,
                            ok |-> rs.path = "primary"]
           /\ rs.path = "primary" =>
                 /\ Len(rs.ops) = 2
                 /\ rs.ops[2] = [api |-> "MoveWindow", show |-> 0, rect |-> r, ok |-> TRUE]
           /\ rs.path # "primary" =>
                 /\ rs.ops[2] = [api |-> "ShowWindow", show |-> SW_RESTORE, rect |-> <<>>,
                                  ok |-> rs.path = "fallback"]
                 /\ rs.path = "failed" => Len(rs.ops) = 2 /\ ~rs.ok
                 /\ rs.path = "fallback" =>
                       /\ Len(rs.ops) = 4 /\ rs.ok
                       /\ rs.ops[3] = [api |-> "MoveWindow", show |-> 0, rect |-> r, ok |-> TRUE]
                       /\ rs.ops[4] = [api |-> "ShowWindow", show |-> SW_SHOWNORMAL,
                                        rect |-> <<>>, ok |-> TRUE]

\* C32 witness: a target snapped to the left half of the monitor was placed
\* by the fallback path on a maximised window, without a placement call.
C32_Witness ==
    /\ SnappedPlaced
    /\ rs.entry.restore_rect = <<0, 0, 960, 1080>>
    /\ rs.path = "fallback"
    /\ Len(rs.ops) = 4
    /\ NoSetPlacement
    /\ desk[1].rect = <<0, 0, 960, 1080>>

(***************************************************************************)
(* The off-screen clamp                                                    *)
(***************************************************************************)
\* _apply_placement returned after clamping.
Clamped == rs.pc = "returned" /\ rs.asked # <<>>

\* <<left, top, right, bottom>> of <<left, top, w, h>>
AsRect(c) == <<c[1], c[2], c[1] + c[3], c[2] + c[4]>>

OnSomeMonitor(rect) == \E m \in DOMAIN rs.bounds : Overlap(rect, rs.bounds[m])

\* C33: with at least one monitor the rect _clamp returns intersects a
\* monitor; width and height are as passed; and a rect that intersects a
\* monitor already is returned as passed.
C33_Clamp ==
    Clamped =>
        /\ rs.bounds # <<>> => OnSomeMonitor(AsRect(rs.clamped))
        /\ rs.clamped[3] = rs.asked[3] /\ rs.clamped[4] = rs.asked[4]
        /\ OnSomeMonitor(AsRect(rs.asked)) => rs.clamped = rs.asked

\* C33 witness: with two monitors, a rect above both was moved down onto
\* the first; its size is the same.
C33_Witness ==
    /\ Clamped
    /\ Len(rs.bounds) = 2
    /\ rs.asked = <<100, -700, 800, 600>>
    /\ rs.clamped = <<100, 0, 800, 600>>
    /\ ~OnSomeMonitor(AsRect(rs.asked))

(***************************************************************************)
(* The counts of the summary                                               *)
(***************************************************************************)
\* The saved targets a placement succeeded for in the matching passes.
AppliedTargets ==
    {ti \in DOMAIN rs.targets :
        \E k \in DOMAIN rs.calls :
           /\ rs.calls[k].op = "place" /\ rs.calls[k].step \in {"match", "rematch"}
           /\ rs.calls[k].tgt = ti /\ rs.calls[k].ok}

\* How often target ti was placed, successfully or not, in the matching
\* passes.
PlacementsOf(ti) ==
    Cardinality({k \in DOMAIN rs.calls :
                    /\ rs.calls[k].op = "place" /\ rs.calls[k].step \in {"match", "rematch"}
                    /\ rs.calls[k].tgt = ti})

\* C34: when the summary is printed, Applied + Skipped = Total, the number
\* of saved targets that are not blocked: Applied counts the targets a
\* placement succeeded for, each once, and Skipped all the others.
C34_SummaryAccounting ==
    rs.pc = "done" =>
        /\ rs.applied + rs.skipped = Len(rs.targets)
        /\ rs.applied = Cardinality(AppliedTargets)
        /\ rs.skipped = Cardinality(DOMAIN rs.targets \ AppliedTargets)
        /\ \A ti \in DOMAIN rs.targets : PlacementsOf(ti) <= 1

\* C34 witness: a run with launch-missing over two saved targets in which
\* one was applied in the second pass and the other stayed missing and was
\* counted as skipped.
C34_Witness ==
    /\ rs.pc = "done"
    /\ Len(rs.targets) = 2
    /\ rs.applied = 1 /\ rs.skipped = 1
    /\ \E k \in DOMAIN rs.calls :
          rs.calls[k].op = "place" /\ rs.calls[k].step = "rematch" /\ rs.calls[k].ok
    /\ rs.missing # <<>>

(***************************************************************************)
(* How often a saved tab is opened                                         *)
(***************************************************************************)
\* Call k of the record is a request that opened tab j of target ti: a
\* createTarget or a single-tab launch for that tab, a --new-tab batch of
\* the target's last n tabs, the --new-window launch of the target (its
\* first tab), or the grouped batch of a group the target is in.
OpensTab(k, ti, j) ==
    \E c \in {rs.calls[k]} :
       /\ c.step = "tabs" /\ c.ok
       /\ \/ c.tgt = ti /\ c.op \in {"cdp", "new-tab"} /\ c.tab = j
          \/ c.tgt = ti /\ c.op = "new-tab" /\ c.tab = 0 /\ j > Len(SavedTabsOf(ti)) - c.n
          \/ c.tgt = ti /\ c.op = "new-window" /\ j = 1
          \/ /\ c.tgt = 0 /\ c.op = "new-window"
             /\ \E h \in DOMAIN rs.handled :
                   /\ rs.handled[h].by = "batch" /\ rs.handled[h].at = k - 1
                   /\ InSeq(ti, rs.handled[h].tgts)

TimesOpened(ti, j) == Cardinality({k \in DOMAIN rs.calls : OpensTab(k, ti, j)})

\* C35: in one restore run no saved tab of any saved browser window is
\* opened more than once, whatever the wizard is answered and wherever its
\* input ends.
C35_NoTabTwice ==
    Replayed =>
        \A ti \in DOMAIN rs.targets :
           IsEdgeTarget(rs.targets[ti]) =>
              \A j \in DOMAIN SavedTabsOf(ti) : TimesOpened(ti, j) <= 1

(***************************************************************************)
(* The stacking at the end of the run                                      *)
(***************************************************************************)
\* Every SetWindowPos of the z-order restore succeeded.
RestackedAll ==
    \A k \in DOMAIN rs.calls : rs.calls[k].op = "top" => rs.calls[k].ok

\* The position of the window with handle hwnd on the desktop, front first.
DepthOf(hwnd) == CHOOSE i \in DOMAIN desk : desk[i].hwnd = hwnd

OnDesk(hwnd) == \E i \in DOMAIN desk : desk[i].hwnd = hwnd

\* C36: when restore_layout is done and every restack call succeeded, the
\* windows placed during the run, those launched by the tab replay
\* included, are stacked by ascending saved z_order: of two placed windows
\* the one with the smaller saved z_order is in front.
C36_StackingAtEnd ==
    rs.pc = "done" /\ RestackedAll =>
        \A a, b \in DOMAIN rs.placed_z :
           /\ OnDesk(rs.placed_z[a][1]) /\ OnDesk(rs.placed_z[b][1])
           /\ rs.placed_z[a][2] < rs.placed_z[b][2]
           => DepthOf(rs.placed_z[a][1]) < DepthOf(rs.placed_z[b][1])

(***************************************************************************)
(* The EdgeTabs figure of the summary                                      *)
(***************************************************************************)
\* The saved tabs, as <<target, position>>, that a successful request of
\* the run opened.
TabsRequested ==
    {p \in UNION {{<<ti, j>> : j \in DOMAIN SavedTabsOf(ti)} :
                     ti \in {t \in DOMAIN rs.targets : IsEdgeTarget(rs.targets[t])}} :
        TimesOpened(p[1], p[2]) >= 1}

\* C37: the EdgeTabs figure of the summary is the number of saved tabs for
\* which a request to open them (a createTarget call or a browser launch)
\* was issued and succeeded during the run.
C37_EdgeTabsExact ==
    Replayed => rs.edge_tabs_opened = Cardinality(TabsRequested)

(***************************************************************************)
(* Stabilisation of a window that keeps still                              *)
(***************************************************************************)
\* The live rect of a window right after _apply_placement succeeded for
\* target t: the requested rect for a snapped or normal target, the rect
\* of its show state for a minimised or maximised one.
LiveAfterPlacement(t) ==
    IF t.is_snapped THEN PlacementRect(t) ELSE LiveRect(DesiredShow(t), PlacementRect(t))

\* C38: a poll of _stabilize_edge that reads, for a matched browser window,
\* exactly the rect _apply_placement produces for its target does not
\* re-apply the placement, whether the target is normal, minimised,
\* maximised or snapped.
C38_StableWithoutDrift ==
    \A k \in DOMAIN rs.polls :
       rs.polls[k].cur = LiveAfterPlacement(rs.targets[rs.polls[k].tgt])
          => rs.polls[k].placed = "no"

(***************************************************************************)
(* Browser launches of the tab replay                                      *)
(***************************************************************************)
\* Call k of the record started a browser with --new-window for target ti.
BrowserStartedFor(k, ti) ==
    /\ rs.calls[k].step = "tabs"
    /\ rs.calls[k].op = "new-window"
    /\ rs.calls[k].tgt = ti
    /\ rs.calls[k].ok

\* C39: the tab replay starts a new browser window only for a saved
\* browser window with at least one saved tab; a saved browser window with
\* no saved tab never causes a launch.
C39_NoLaunchWithoutTabs ==
    \A k \in DOMAIN rs.calls : \A ti \in DOMAIN rs.targets :
       BrowserStartedFor(k, ti) => _normalize_tabs(rs.targets[ti].edge_tabs) # <<>>

\* The saved browser windows the launch step of the replay is for: not
\* placed on a live window, in a session no debug endpoint serves.
Unplaced ==
    {ti \in DOMAIN rs.targets :
        /\ IsEdgeTarget(rs.targets[ti])
        /\ HwndOf(rs.edge_applied, ti) = 0
        /\ ti \notin CdpServed}

\* C39 (amended): the tab replay starts a new browser window only for a
\* saved browser window that was not placed on a live window, in a session
\* no debug endpoint serves, and it does so for each of them when the
\* browser can be started, one with no saved tab included.
C39_LaunchForUnplaced ==
    /\ \A k \in DOMAIN rs.calls : \A ti \in DOMAIN rs.targets :
          BrowserStartedFor(k, ti) => ti \in Unplaced
    /\ Replayed /\ rs.env.exeFound /\ rs.env.popenOk =>
          \A ti \in Unplaced : \E k \in DOMAIN rs.calls : BrowserStartedFor(k, ti)

\* A browser was started for a saved window without tabs, its window
\* showed up and was taken for the target.
C39_Witness ==
    /\ Replayed
    /\ \E ti \in Unplaced :
          /\ _normalize_tabs(rs.targets[ti].edge_tabs) = <<>>
          /\ \E k \in DOMAIN rs.calls : BrowserStartedFor(k, ti)
          /\ \E k \in DOMAIN rs.claims :
                rs.claims[k].step = "edge-launch" /\ rs.claims[k].tgt = ti

=============================================================================
